---------------------------- MODULE Spec2Model ----------------------------
(***************************************************************************)
(* Model of stormdriver, the aggregating reverse proxy in front of a fleet *)
(* of clouddriver backends.                                                *)
(*                                                                         *)
(*   Spec            the ClouddriverManager: registry, refresh loop, lock, *)
(*                   discovery updates and snapshot readers                *)
(*   SpecFetchCreds  one updateAccounts call over a bounded set of         *)
(*                   registries and of credentials replies                 *)
(*   SpecServe       one HTTP request from the router to the response:     *)
(*                   the route table, the handlers that pick one backend   *)
(*                   and the handlers that ask every backend               *)
(*   SpecHealth      the health checker of health.go with the checks main  *)
(*                   registers, the account tracker through its first      *)
(*                   refresh, and GET /health                              *)
(*   SpecForward     requests with headers, served by a fleet in which one *)
(*                   backend has a bearer token                            *)
(*   SpecCombineURL  combineURL applied to bounded strings                 *)
(*   SpecDiscovery   handleUpdate over bounded sequences of discovery      *)
(*                   events                                                *)
(*   SpecBodyRoute   the requests routed by an account named in their body *)
(*   SpecTargets     the handlers that ask every healthy backend, against  *)
(*                   fleets in which routes share a backend                *)
(*   SpecRemoval     a manager with a discovered backend: deletes and      *)
(*                   refreshes                                             *)
(*   SpecCache       the paginated cache: RunCache, requests and updates   *)
(*   SpecLocks       the manager's lock and the health checker's lock,     *)
(*                   every acquisition a step; SpecLocksFair adds the      *)
(*                   scheduling                                            *)
(*   SpecChecks      the health checker on its own, from makeHealth on     *)
(*   SpecEmptyURL    discovery updates with an empty URL, and refreshes    *)
(*   SpecConfig      main from the configuration file to the first refresh *)
(*                                                                         *)
(* Go maps are functions whose DOMAIN is the key set; Go slices are        *)
(* sequences; a nil slice and an empty slice are both <<>> where the code  *)
(* only ranges over them.                                                  *)
(***************************************************************************)
EXTENDS Integers, Sequences, FiniteSets, TLC

(***************************************************************************)
(* Bounds of the model.                                                    *)
(***************************************************************************)
MaxRefresh == 2
MaxUpdates == 1
MaxLen == 3

(***************************************************************************)
(* Generic helpers for Go maps and slices.                                 *)
(***************************************************************************)
EmptyMap == [k \in {} |-> 0]

MapPut(m, k, v) == [n \in DOMAIN m \cup {k} |-> IF n = k THEN v ELSE m[n]]

MapDelete(m, k) == [n \in DOMAIN m \ {k} |-> m[n]]

Range(s) == {s[i] : i \in DOMAIN s}

(***************************************************************************)
(* HTTP replies of a backend, as fetchGet returns them: a transport error, *)
(* or a status code with a body.  A body is JSON text, modelled by what    *)
(* json.Unmarshal makes of it: junk (no JSON, or JSON of the wrong shape), *)
(* the literal null, or an array of items.                                 *)
(***************************************************************************)
TransportError == [err |-> TRUE, code |-> -1, body |-> [kind |-> "junk"]]

Reply(code, body) == [err |-> FALSE, code |-> code, body |-> body]

JunkBody == [kind |-> "junk"]

NullBody == [kind |-> "null"]

ArrayBody(items) == [kind |-> "array", items |-> items]

StatusCodeOK(code) == code >= 200 /\ code <= 299

(***************************************************************************)
(* The registry: configured and discovered clouddrivers.                   *)
(***************************************************************************)
NoError == "nil"

InitialSyncError == "initial sync not yet performed"

Acct(name, type) == [Name |-> name, Type |-> type]

URLAndPriority(url, priority, token) ==
    [URL |-> url, Priority |-> priority, token |-> token]

ClouddriverConfig(name, url, priority, disable) ==
    [Name |-> name, URL |-> url, HealthcheckURL |-> "", UIUrl |-> "",
     Priority |-> priority, DisableArtifactAccounts |-> disable]

ConfigKey(clouddriver) == "config:" \o clouddriver.Name

makeTrackedClouddriverFromConfig(clouddriver) ==
    [Source |-> "config",
     Name |-> clouddriver.Name,
     URL |-> clouddriver.URL,
     UIUrl |-> clouddriver.UIUrl,
     AgentName |-> "",
     LastSuccessfulContact |-> 0,
     Priority |-> clouddriver.Priority,
     DisableArtifactAccounts |-> clouddriver.DisableArtifactAccounts,
     healthcheckURL |-> IF clouddriver.HealthcheckURL = ""
                        THEN clouddriver.URL \o "/health"
                        ELSE clouddriver.HealthcheckURL,
     token |-> "",
     artifactHealth |-> IF clouddriver.DisableArtifactAccounts
                        THEN NoError ELSE InitialSyncError,
     accountHealth |-> InitialSyncError]

\* strings.ToLower(s) == "true" || == "yes", over the annotation values used
yesno(s) == s \in {"true", "TRUE", "True", "yes", "YES", "Yes"}

\* strconv.Atoi over the annotation values used: 0 and an error on a
\* string that is no decimal number
Atoi(s) ==
    CASE s = "0" -> 0
      [] s = "5" -> 5
      [] s = "9" -> 9
      [] OTHER -> 0

makeTrackedClouddriverFromUpdate(update) ==
    LET disableArtifactAccounts == yesno(update.Annotations.disableArtifactAccounts)
        strpri == update.Annotations.priority
    IN [Source |-> "controller",
        Name |-> update.Name,
        URL |-> update.URL,
        UIUrl |-> update.Annotations.uiUrl,
        AgentName |-> update.AgentName,
        LastSuccessfulContact |-> 0,
        Priority |-> IF strpri # "" THEN Atoi(strpri) ELSE 0,
        DisableArtifactAccounts |-> disableArtifactAccounts,
        healthcheckURL |-> update.URL \o "/health",
        token |-> update.Token,
        artifactHealth |-> IF disableArtifactAccounts
                           THEN NoError ELSE InitialSyncError,
        accountHealth |-> InitialSyncError]

\* the key without the prefix that tells a discovered entry from a configured one
UpdateKeyNoPrefix(update) == update.AgentName \o ":" \o update.Name

UpdateKey(update) == "controller:" \o update.AgentName \o ":" \o update.Name

(***************************************************************************)
(* The health supervisor's check list, as far as the registry changes it.  *)
(***************************************************************************)
HealthIndicator(service, observeOnly, checker) ==
    [Service |-> service, Healthy |-> TRUE, Message |-> "",
     ObserveOnly |-> observeOnly, LastChecked |-> 0, checker |-> checker]

\* s[i] = s[len(s)-1]; return s[:len(s)-1]   (i is 1-based here)
removeChecker(s, i) ==
    SubSeq([s EXCEPT ![i] = s[Len(s)]], 1, Len(s) - 1)

\* A service already in the list is left as it is: the loop assigns to its
\* copy of the element and returns.
AddCheck(checks, service, observeOnly, checker) ==
    IF \E i \in DOMAIN checks : checks[i].Service = service
    THEN checks
    ELSE Append(checks, HealthIndicator(service, observeOnly, checker))

RemoveCheck(checks, service) ==
    IF \E i \in DOMAIN checks : checks[i].Service = service
    THEN LET idx == CHOOSE i \in DOMAIN checks :
                      /\ checks[i].Service = service
                      /\ \A j \in DOMAIN checks :
                            checks[j].Service = service => i <= j
         IN removeChecker(checks, idx)
    ELSE checks

(***************************************************************************)
(* Inputs: the configuration list, the discovery events, the account       *)
(* names and the credentials replies.                                      *)
(***************************************************************************)
ConfiguredClouddrivers ==
    << ClouddriverConfig("a", "http://a", 0, FALSE),
       ClouddriverConfig("b", "http://b", 5, TRUE) >>

ServiceUpdate(op, priority, disable) ==
    [Operation |-> op, AgentName |-> "agent", Name |-> "c",
     URL |-> "http://c", Token |-> "tok",
     Annotations |-> [uiUrl |-> "", priority |-> priority,
                      disableArtifactAccounts |-> disable]]

DiscoveryUpdates ==
    { ServiceUpdate("update", "5", ""),
      ServiceUpdate("update", "bad", "yes"),
      ServiceUpdate("delete", "", "") }

X1 == Acct("x", "aws")

X2 == Acct("x", "kubernetes")

Y1 == Acct("y", "aws")

G1 == Acct("g", "gcs")

AccountNames == {"x", "y", "g"}

Kinds == {"cloud", "artifact"}

\* what a backend may answer to a credentials poll of the refresh loop
TrackerReplies(kind) ==
    IF kind = "cloud"
    THEN { TransportError,
           Reply(500, ArrayBody(<<X1>>)),
           Reply(200, JunkBody),
           Reply(200, ArrayBody(<<X1>>)),
           Reply(200, ArrayBody(<<X1, Y1>>)) }
    ELSE { TransportError,
           Reply(200, NullBody),
           Reply(200, ArrayBody(<<G1>>)) }

(***************************************************************************)
(* State.                                                                  *)
(***************************************************************************)
VARIABLES
    state,                   \* m.state: registry key -> trackedClouddriver
    cloudAccountRoutes,      \* m.cloudAccountRoutes
    cloudAccounts,           \* m.cloudAccounts
    artifactAccountRoutes,   \* m.artifactAccountRoutes
    artifactAccounts,        \* m.artifactAccounts
    health,                  \* m.health
    mutex,                   \* m.Mutex: "free" or the holder
    Checks,                  \* healthchecker.Checks
    trackerPc,               \* position of the accountTracker goroutine
    pendingUpdate,           \* the update accountTracker took off updateChan
    timer,                   \* the refresh timer t: "stopped" or "armed"
    wg,                      \* the WaitGroup of the running updateAllAccounts
    refresherPc,             \* position of the running updateAllAccounts
    worker,                  \* per kind: the updateAccounts /
                             \* updateArtifactAccounts goroutine and the
                             \* locals of its fetchCreds call
    refreshNo,               \* history: refreshes started so far
    nUpdates,                \* history: discovery events taken so far
    gen,                     \* history: the refresh each published field is of
    lastAdvertised,          \* history: per kind, the account names of the
                             \* successful replies of the last completed poll
    replies,                 \* history: per kind, the replies of the poll in
                             \* progress or last completed, in arrival order
    observed,                \* history: what the last snapshot reader saw
    req,                     \* the HTTP request being served
    handler,                 \* the handler the router chose for it
    hpc,                     \* position of the handler
    upstream,                \* the requests the handler has sent to backends
    children,                \* fan-out: per contacted backend, its goroutine
    acc,                     \* fan-out: the locals of the combining loop
    response,                \* what has been written to the client
    arrivals,                \* history: the replies the combining loop has
                             \* received, in the order it received them
    run,                     \* h.run
    Healthy,                 \* h.Healthy
    nextIndex,               \* RunCheckers: nextIndex
    checkersCount,           \* RunCheckers: count
    checkersPc,              \* position of the RunCheckers goroutine
    lastRun,                 \* history: per service, whether the most recent
                             \* call of its checker returned nil
    stopped,                 \* history: StopCheckers has been called
    hmutex,                  \* h's sync.Mutex: "free" or its holder
    checking,                \* the healthIndicator a running runChecker
                             \* was passed
    cache,                   \* c.cache: key -> cacheEntry
    fetches,                 \* the running c.update goroutines
    clients,                 \* the senders of CacheRequests
    cachePc,                 \* position of the RunCache goroutine
    applied,                 \* a function applied on its own: its arguments
                             \* and, once it has returned, its result
    events                   \* history: the discovery events handleUpdate
                             \* has handled, in order

vars == << state, cloudAccountRoutes, cloudAccounts, artifactAccountRoutes,
           artifactAccounts, health, mutex, Checks, trackerPc, pendingUpdate,
           timer, wg, refresherPc, worker, refreshNo, nUpdates, gen,
           lastAdvertised, replies, observed, req, handler, hpc, upstream,
           children, acc, response, arrivals, run, Healthy, nextIndex,
           checkersCount, checkersPc, lastRun, stopped, applied, events,
           cache, fetches, clients, cachePc, hmutex, checking >>

cacheVars == << cache, fetches, clients, cachePc >>

httpVars == << req, handler, hpc, upstream, children, acc, response, arrivals >>

checkerVars == << run, Healthy, nextIndex, checkersCount, checkersPc, lastRun,
                  stopped, hmutex, checking >>

trackerVars == << state, health, mutex, Checks, trackerPc, pendingUpdate,
                  timer, wg, refresherPc, worker, refreshNo, nUpdates, gen,
                  lastAdvertised, replies, observed, checkerVars, applied,
                  events, cacheVars >>

\* MakePaginatedCache, and RunCache started
MakePaginatedCache ==
    /\ cache = EmptyMap
    /\ fetches = {}
    /\ cachePc = "select"

\* the cache has no client
NoCacheClients ==
    /\ MakePaginatedCache
    /\ clients = EmptyMap

\* no function is being applied on its own
NotApplied == [fn |-> "none"]

published == << cloudAccountRoutes, cloudAccounts, artifactAccountRoutes,
                artifactAccounts >>

IdleWorker ==
    [pc |-> "idle", cds |-> EmptyMap, pending |-> {},
     newAccountRoutes |-> EmptyMap, newAccounts |-> <<>>, advertised |-> {}]

NoUpdate == [Operation |-> "none"]

NoRequest == [method |-> "none"]

NoResponse == [status |-> 0]

IdleAcc == [mode |-> "none", i |-> 0, count |-> 0]

\* no request has been accepted yet
HTTPIdle ==
    /\ req = NoRequest
    /\ handler = "none"
    /\ hpc = "idle"
    /\ upstream = {}
    /\ children = EmptyMap
    /\ acc = IdleAcc
    /\ response = NoResponse
    /\ arrivals = <<>>

\* makeHealth; RunCheckers has not been started
\* no healthIndicator: runChecker is not running
NoIndicator == [Service |-> "none"]

makeHealth ==
    /\ run = FALSE
    /\ Healthy = TRUE
    /\ nextIndex = 0
    /\ checkersCount = 0
    /\ checkersPc = "notStarted"
    /\ lastRun = EmptyMap
    /\ stopped = FALSE
    \* the zero sync.Mutex, and no check being run
    /\ hmutex = "free"
    /\ checking = NoIndicator

(***************************************************************************)
(* MakeClouddriverManager.                                                 *)
(***************************************************************************)
RECURSIVE ConfigState(_)
ConfigState(clouddrivers) ==
    IF clouddrivers = <<>> THEN EmptyMap
    ELSE LET rest == ConfigState(SubSeq(clouddrivers, 1, Len(clouddrivers) - 1))
             clouddriver == clouddrivers[Len(clouddrivers)]
         IN MapPut(rest, ConfigKey(clouddriver),
                   makeTrackedClouddriverFromConfig(clouddriver))

RECURSIVE ConfigChecks(_)
ConfigChecks(clouddrivers) ==
    IF clouddrivers = <<>> THEN <<>>
    ELSE LET rest == ConfigChecks(SubSeq(clouddrivers, 1, Len(clouddrivers) - 1))
             clouddriver == clouddrivers[Len(clouddrivers)]
         IN AddCheck(rest, "clouddriver " \o ConfigKey(clouddriver), TRUE,
                     ConfigKey(clouddriver))

MakeClouddriverManager(clouddrivers) ==
    /\ state = ConfigState(clouddrivers)
    /\ cloudAccountRoutes = EmptyMap
    /\ cloudAccounts = <<>>
    /\ artifactAccountRoutes = EmptyMap
    /\ artifactAccounts = <<>>
    /\ health = InitialSyncError
    /\ mutex = "free"
    /\ Checks = AddCheck(ConfigChecks(clouddrivers), "ClouddriverManager",
                         TRUE, "ClouddriverManager")

(***************************************************************************)
(* Snapshot readers.  Each takes the lock, reads and releases it, so it is *)
(* one step that needs the lock free.                                      *)
(***************************************************************************)
\* findCloudRoute looking in the artifact routes too
findCloudRouteAnyMap(name) ==
    IF name \in DOMAIN cloudAccountRoutes
    THEN [found |-> TRUE, val |-> cloudAccountRoutes[name]]
    ELSE IF name \in DOMAIN artifactAccountRoutes
    THEN [found |-> TRUE, val |-> artifactAccountRoutes[name]]
    ELSE [found |-> FALSE, val |-> URLAndPriority("", 0, "")]

findCloudRoute(name) ==
    [found |-> name \in DOMAIN cloudAccountRoutes,
     val |-> IF name \in DOMAIN cloudAccountRoutes
             THEN cloudAccountRoutes[name]
             ELSE URLAndPriority("", 0, "")]

findArtifactRoute(name) ==
    [found |-> name \in DOMAIN artifactAccountRoutes,
     val |-> IF name \in DOMAIN artifactAccountRoutes
             THEN artifactAccountRoutes[name]
             ELSE URLAndPriority("", 0, "")]

\* the map key of a URLAndPriority in getHealthyClouddriverURLs
key(v) == v.URL

\* every backend of the registry, whether a route points at it or not
getAllClouddriverURLs ==
    { { URLAndPriority(state[k].URL, state[k].Priority, state[k].token) :
          k \in DOMAIN state } }

\* The slices the call can return, each as a set: the order of the slice
\* is the iteration order of a Go map.  healthy[v.key()] = v keeps one
\* value for a key: a value of the artifact routes if one has the key (the
\* second loop overwrites what the first one stored), and which of several
\* values of one map with the same key is stored last is the iteration
\* order of that map.
getHealthyClouddriverURLs ==
    LET cloud == Range(cloudAccountRoutes)
        artifact == Range(artifactAccountRoutes)
        keys == {key(v) : v \in cloud \cup artifact}
        last(k) == IF \E v \in artifact : key(v) = k
                   THEN {v \in artifact : key(v) = k}
                   ELSE {v \in cloud : key(v) = k}
        healthy == { h \in [keys -> cloud \cup artifact] :
                       \A k \in keys : h[k] \in last(k) }
    IN { Range(h) : h \in healthy }

\* getClouddriverURLs without its test of DisableArtifactAccounts
getClouddriverURLsAll(artifactAccount) ==
    [k \in DOMAIN state |->
       URLAndPriority(state[k].URL, state[k].Priority, state[k].token)]

getClouddriverURLs(artifactAccount) ==
    LET keys == { k \in DOMAIN state :
                    \/ ~artifactAccount
                    \/ (artifactAccount /\ ~state[k].DisableArtifactAccounts) }
    IN [k \in keys |->
          URLAndPriority(state[k].URL, state[k].Priority, state[k].token)]

(***************************************************************************)
(* fetchCreds and its helpers.                                             *)
(***************************************************************************)
\* fetchCredsFromOne without its check of the status code
fetchCredsFromOneAnyStatus(reply) ==
    IF reply.err THEN <<>>
    ELSE IF reply.body.kind = "junk" THEN <<>>
    ELSE IF reply.body.kind = "null" THEN <<>>
    ELSE reply.body.items

Returned(val) == [panic |-> FALSE, val |-> val]

\* a slice or index expression out of range
Panic == [panic |-> TRUE]

combineURL(base, uri) ==
    LET uri1 == IF Len(uri) = 0 THEN <<"/">> ELSE uri
        uri2 == IF uri1[1] # "/" THEN <<"/">> \o uri1 ELSE uri1
    IN IF Len(base) = 0 THEN Panic
       ELSE IF base[Len(base)] = "/"
       THEN Returned(SubSeq(base, 1, Len(base) - 1) \o uri2)
       ELSE Returned(base \o uri2)

\* The characters of a URL of the registry, as combineURL looks at them: it
\* tests the length of base and whether its last character is a slash.  The
\* URLs of the registry do not end in a slash.
URLText(url) == [i \in 1 .. Len(url) |-> "a"]

\* fetchCredsFromOne: fullURL := combineURL(cd.URL, path) panics
fetchCredsFromOnePanics(cd) == combineURL(URLText(cd.URL), << "/", "a" >>).panic

\* resp.accounts of fetchCredsFromOne for the reply fetchGet returned
fetchCredsFromOne(reply) ==
    IF reply.err THEN <<>>
    ELSE IF ~StatusCodeOK(reply.code) THEN <<>>
    ELSE IF reply.body.kind = "junk" THEN <<>>
    ELSE IF reply.body.kind = "null" THEN <<>>
    ELSE reply.body.items

\* mergeIfUnique that never takes a route over: the first backend keeps it
RECURSIVE mergeIfUniqueKeepFirst(_, _, _, _)
mergeIfUniqueKeepFirst(cd, instanceAccounts, routes, newAccounts) ==
    IF instanceAccounts = <<>>
    THEN [routes |-> routes, newAccounts |-> newAccounts]
    ELSE LET account == Head(instanceAccounts)
         IN IF account.Name \notin DOMAIN routes
            THEN mergeIfUniqueKeepFirst(cd, Tail(instanceAccounts),
                                        MapPut(routes, account.Name, cd),
                                        Append(newAccounts, account))
            ELSE mergeIfUniqueKeepFirst(cd, Tail(instanceAccounts),
                                        routes, newAccounts)

\* mergeIfUnique that appends the account again when it takes a route over
RECURSIVE mergeIfUniqueAppendAgain(_, _, _, _)
mergeIfUniqueAppendAgain(cd, instanceAccounts, routes, newAccounts) ==
    IF instanceAccounts = <<>>
    THEN [routes |-> routes, newAccounts |-> newAccounts]
    ELSE LET account == Head(instanceAccounts)
         IN IF account.Name \notin DOMAIN routes
            THEN mergeIfUniqueAppendAgain(cd, Tail(instanceAccounts),
                                          MapPut(routes, account.Name, cd),
                                          Append(newAccounts, account))
            ELSE IF routes[account.Name].Priority < cd.Priority
            THEN mergeIfUniqueAppendAgain(cd, Tail(instanceAccounts),
                                          MapPut(routes, account.Name, cd),
                                          Append(newAccounts, account))
            ELSE mergeIfUniqueAppendAgain(cd, Tail(instanceAccounts),
                                          routes, newAccounts)

RECURSIVE mergeIfUnique(_, _, _, _)
mergeIfUnique(cd, instanceAccounts, routes, newAccounts) ==
    IF instanceAccounts = <<>>
    THEN [routes |-> routes, newAccounts |-> newAccounts]
    ELSE LET account == Head(instanceAccounts)
         IN IF account.Name \notin DOMAIN routes
            THEN mergeIfUnique(cd, Tail(instanceAccounts),
                               MapPut(routes, account.Name, cd),
                               Append(newAccounts, account))
            ELSE IF routes[account.Name].Priority < cd.Priority
            THEN mergeIfUnique(cd, Tail(instanceAccounts),
                               MapPut(routes, account.Name, cd),
                               newAccounts)
            ELSE mergeIfUnique(cd, Tail(instanceAccounts),
                               routes, newAccounts)

\* "a successful /credentials response": a 2xx reply whose body is a JSON
\* array of accounts; the account names it advertises
Advertises(reply) ==
    IF ~reply.err /\ reply.code \in 200..299 /\ reply.body.kind = "array"
    THEN {reply.body.items[i].Name : i \in DOMAIN reply.body.items}
    ELSE {}

NoReply == [err |-> FALSE, code |-> 0, body |-> [kind |-> "none"]]


(***************************************************************************)
(* updateAccounts and updateArtifactAccounts.  Both are the same code over *)
(* a different path, fleet filter and pair of fields; kind names which.    *)
(* The goroutine takes the lock first and keeps it until it returns: the   *)
(* deferred calls run wg.Done before Unlock.                               *)
(***************************************************************************)
Routes(kind) ==
    IF kind = "cloud" THEN cloudAccountRoutes ELSE artifactAccountRoutes

Accounts(kind) ==
    IF kind = "cloud" THEN cloudAccounts ELSE artifactAccounts

\* m.Lock(); cds := m.getClouddriverURLs(...); fetchCreds starts one
\* fetchCredsFromOne goroutine per element of cds
UpdateLock(kind) ==
    /\ worker[kind].pc = "start"
    /\ mutex = "free"
    /\ mutex' = kind
    /\ LET cds == getClouddriverURLs(kind = "artifact")
       IN worker' = [worker EXCEPT ![kind] =
                        [pc |-> "fetch", cds |-> cds, pending |-> DOMAIN cds,
                         newAccountRoutes |-> EmptyMap, newAccounts |-> <<>>,
                         advertised |-> {}]]
    /\ replies' = [replies EXCEPT ![kind] = <<>>]
    /\ UNCHANGED << state, published, health, Checks, trackerPc,
                    pendingUpdate, timer, wg, refresherPc, refreshNo,
                    nUpdates, gen, lastAdvertised, observed >>
    /\ UNCHANGED << httpVars, checkerVars, applied, events, cacheVars >>

\* creds := <-c; newAccounts = mergeIfUnique(...): the replies are merged
\* in the order in which the backends answer.  Replies is what a backend
\* may answer; record says whether the history keeps each reply.
UpdateReceive(kind, Replies, record) ==
    /\ worker[kind].pc = "fetch"
    /\ \E b \in worker[kind].pending, reply \in Replies :
          LET w == worker[kind]
              merged == mergeIfUnique(w.cds[b], fetchCredsFromOne(reply),
                                      w.newAccountRoutes, w.newAccounts)
          IN /\ ~fetchCredsFromOnePanics(w.cds[b])
             /\ worker' = [worker EXCEPT ![kind] =
                              [w EXCEPT !.pending = @ \ {b},
                                        !.newAccountRoutes = merged.routes,
                                        !.newAccounts = merged.newAccounts,
                                        !.advertised = @ \cup Advertises(reply)]]
             /\ replies' = IF record
                           THEN [replies EXCEPT ![kind] =
                                    Append(@, [b |-> b, reply |-> reply])]
                           ELSE replies
    /\ UNCHANGED << state, published, health, mutex, Checks, trackerPc,
                    pendingUpdate, timer, wg, refresherPc, refreshNo,
                    nUpdates, gen, lastAdvertised, observed >>
    /\ UNCHANGED << httpVars, checkerVars, applied, events, cacheVars >>

\* a variant of UpdatePublishRoutes that lets go of the lock between the
\* two assignments
UpdatePublishRoutesUnlocked(kind) ==
    /\ worker[kind].pc = "fetch"
    /\ worker[kind].pending = {}
    /\ IF kind = "cloud"
       THEN /\ cloudAccountRoutes' = worker[kind].newAccountRoutes
            /\ UNCHANGED artifactAccountRoutes
       ELSE /\ artifactAccountRoutes' = worker[kind].newAccountRoutes
            /\ UNCHANGED cloudAccountRoutes
    /\ gen' = [gen EXCEPT ![kind].routes = refreshNo]
    /\ worker' = [worker EXCEPT ![kind].pc = "publishAccounts"]
    /\ mutex' = "free"
    /\ UNCHANGED << state, cloudAccounts, artifactAccounts, health,
                    Checks, trackerPc, pendingUpdate, timer, wg, refresherPc,
                    refreshNo, nUpdates, lastAdvertised, replies, observed >>
    /\ UNCHANGED << httpVars, checkerVars, applied, events, cacheVars >>

\* a variant of UpdatePublishRoutes that adds the new routes to the map
\* instead of replacing the map
UpdatePublishRoutesMerge(kind) ==
    /\ worker[kind].pc = "fetch"
    /\ worker[kind].pending = {}
    /\ LET new == worker[kind].newAccountRoutes
           merged == [n \in DOMAIN Routes(kind) \cup DOMAIN new |->
                        IF n \in DOMAIN new THEN new[n] ELSE Routes(kind)[n]]
       IN IF kind = "cloud"
          THEN /\ cloudAccountRoutes' = merged
               /\ UNCHANGED artifactAccountRoutes
          ELSE /\ artifactAccountRoutes' = merged
               /\ UNCHANGED cloudAccountRoutes
    /\ gen' = [gen EXCEPT ![kind].routes = refreshNo]
    /\ worker' = [worker EXCEPT ![kind].pc = "publishAccounts"]
    /\ UNCHANGED << state, cloudAccounts, artifactAccounts, health, mutex,
                    Checks, trackerPc, pendingUpdate, timer, wg, refresherPc,
                    refreshNo, nUpdates, lastAdvertised, replies, observed >>
    /\ UNCHANGED << httpVars, checkerVars, applied, events, cacheVars >>

\* m.cloudAccountRoutes = newAccountRoutes (m.artifactAccountRoutes = ...)
UpdatePublishRoutes(kind) ==
    /\ worker[kind].pc = "fetch"
    /\ worker[kind].pending = {}
    /\ IF kind = "cloud"
       THEN /\ cloudAccountRoutes' = worker[kind].newAccountRoutes
            /\ UNCHANGED artifactAccountRoutes
       ELSE /\ artifactAccountRoutes' = worker[kind].newAccountRoutes
            /\ UNCHANGED cloudAccountRoutes
    /\ gen' = [gen EXCEPT ![kind].routes = refreshNo]
    /\ worker' = [worker EXCEPT ![kind].pc = "publishAccounts"]
    /\ UNCHANGED << state, cloudAccounts, artifactAccounts, health, mutex,
                    Checks, trackerPc, pendingUpdate, timer, wg, refresherPc,
                    refreshNo, nUpdates, lastAdvertised, replies, observed >>
    /\ UNCHANGED << httpVars, checkerVars, applied, events, cacheVars >>

\* m.cloudAccounts = newAccounts (m.artifactAccounts = ...); wg.Done()
UpdatePublishAccounts(kind) ==
    /\ worker[kind].pc = "publishAccounts"
    /\ IF kind = "cloud"
       THEN /\ cloudAccounts' = worker[kind].newAccounts
            /\ UNCHANGED artifactAccounts
       ELSE /\ artifactAccounts' = worker[kind].newAccounts
            /\ UNCHANGED cloudAccounts
    /\ gen' = [gen EXCEPT ![kind].accounts = refreshNo]
    /\ lastAdvertised' = [lastAdvertised EXCEPT ![kind] = worker[kind].advertised]
    /\ wg' = wg - 1
    /\ worker' = [worker EXCEPT ![kind].pc = "unlock"]
    /\ UNCHANGED << state, cloudAccountRoutes, artifactAccountRoutes, health,
                    mutex, Checks, trackerPc, pendingUpdate, timer,
                    refresherPc, refreshNo, nUpdates, replies, observed >>
    /\ UNCHANGED << httpVars, checkerVars, applied, events, cacheVars >>

\* m.Unlock()
UpdateUnlock(kind) ==
    /\ worker[kind].pc = "unlock"
    /\ mutex' = "free"
    /\ worker' = [worker EXCEPT ![kind] =
                    [IdleWorker EXCEPT !.advertised = worker[kind].advertised]]
    /\ UNCHANGED << state, published, health, Checks, trackerPc,
                    pendingUpdate, timer, wg, refresherPc, refreshNo,
                    nUpdates, gen, lastAdvertised, replies, observed >>
    /\ UNCHANGED << httpVars, checkerVars, applied, events, cacheVars >>

(***************************************************************************)
(* accountTracker and updateAllAccounts.                                   *)
(***************************************************************************)
\* updateAllAccounts up to wg.Wait(): wg.Add(2) and the two goroutines
StartRefresh ==
    /\ wg' = 2
    /\ worker' = [k \in Kinds |-> [IdleWorker EXCEPT !.pc = "start"]]
    /\ refresherPc' = "wait"
    /\ refreshNo' = refreshNo + 1

\* m.updateAllAccounts(t), called by accountTracker itself at its start
accountTrackerStart ==
    /\ trackerPc = "start"
    /\ StartRefresh
    /\ trackerPc' = "firstSync"
    /\ UNCHANGED << state, published, health, mutex, Checks, pendingUpdate,
                    timer, nUpdates, gen, lastAdvertised, replies, observed >>
    /\ UNCHANGED << httpVars, checkerVars, applied, events, cacheVars >>

\* wg.Wait() returns; t.Reset(credentialsUpdateFrequency * time.Second)
updateAllAccountsDone ==
    /\ refresherPc = "wait"
    /\ wg = 0
    /\ timer' = "armed"
    /\ refresherPc' = "idle"
    /\ trackerPc' = IF trackerPc = "firstSync" THEN "setHealth" ELSE trackerPc
    /\ UNCHANGED << state, published, health, mutex, Checks, pendingUpdate,
                    wg, worker, refreshNo, nUpdates, gen, lastAdvertised,
                    replies, observed >>
    /\ UNCHANGED << httpVars, checkerVars, applied, events, cacheVars >>

\* m.health = nil
accountTrackerSetHealth ==
    /\ trackerPc = "setHealth"
    /\ health' = NoError
    /\ trackerPc' = "loop"
    /\ UNCHANGED << state, published, mutex, Checks, pendingUpdate, timer,
                    wg, refresherPc, worker, refreshNo, nUpdates, gen,
                    lastAdvertised, replies, observed >>
    /\ UNCHANGED << httpVars, checkerVars, applied, events, cacheVars >>

\* case <-t.C: go m.updateAllAccounts(t)
\* accountTrackerTimer with a timer that goes on firing after a tick
accountTrackerTicker ==
    /\ trackerPc = "loop"
    /\ timer = "armed"
    /\ \A k \in Kinds : worker[k].pc = "idle"
    /\ refreshNo < MaxRefresh
    /\ timer' = "armed"
    /\ StartRefresh
    /\ UNCHANGED << state, published, health, mutex, Checks, trackerPc,
                    pendingUpdate, nUpdates, gen, lastAdvertised, replies,
                    observed >>
    /\ UNCHANGED << httpVars, checkerVars, applied, events, cacheVars >>

accountTrackerTimer ==
    /\ trackerPc = "loop"
    /\ timer = "armed"
    /\ \A k \in Kinds : worker[k].pc = "idle"
    /\ refreshNo < MaxRefresh
    /\ timer' = "stopped"
    /\ StartRefresh
    /\ UNCHANGED << state, published, health, mutex, Checks, trackerPc,
                    pendingUpdate, nUpdates, gen, lastAdvertised, replies,
                    observed >>
    /\ UNCHANGED << httpVars, checkerVars, applied, events, cacheVars >>

\* case update := <-updateChan: the tracker then calls m.handleUpdate
accountTrackerReceive ==
    /\ trackerPc = "loop"
    /\ nUpdates < MaxUpdates
    /\ \E update \in DiscoveryUpdates : pendingUpdate' = update
    /\ nUpdates' = nUpdates + 1
    /\ trackerPc' = "handleUpdate"
    /\ UNCHANGED << state, published, health, mutex, Checks, timer, wg,
                    refresherPc, worker, refreshNo, gen, lastAdvertised,
                    replies, observed >>
    /\ UNCHANGED << httpVars, checkerVars, applied, events, cacheVars >>

\* handleUpdate: the whole body runs under m.Lock()
handleUpdate ==
    /\ trackerPc = "handleUpdate"
    /\ mutex = "free"
    /\ LET update == pendingUpdate
           k == UpdateKey(update)
           tracked == makeTrackedClouddriverFromUpdate(update)
       IN IF update.Operation = "delete"
          THEN /\ state' = MapDelete(state, k)
               /\ Checks' = RemoveCheck(Checks, "clouddriver " \o k)
          ELSE IF update.Operation = "update"
          THEN IF k \notin DOMAIN state
               THEN /\ state' = MapPut(state, k, tracked)
                    /\ Checks' = AddCheck(Checks, "clouddriver " \o k, TRUE, k)
               ELSE /\ state' = MapPut(state, k,
                                [tracked EXCEPT !.LastSuccessfulContact =
                                                  state[k].LastSuccessfulContact])
                    /\ Checks' = AddCheck(RemoveCheck(Checks, "clouddriver " \o k),
                                          "clouddriver " \o k, TRUE, k)
          ELSE UNCHANGED << state, Checks >>
    /\ pendingUpdate' = NoUpdate
    /\ trackerPc' = "loop"
    /\ UNCHANGED << published, health, mutex, timer, wg, refresherPc, worker,
                    refreshNo, nUpdates, gen, lastAdvertised, replies,
                    observed >>
    /\ UNCHANGED << httpVars, checkerVars, applied, cacheVars >>
    \* the history keeps the event and the number of refreshes started so far
    /\ events' = Append(events, pendingUpdate @@ [at |-> refreshNo])

\* a request handler calls getHealthyClouddriverURLs: both route maps are
\* read under one acquisition of the lock
HealthyBackends ==
    /\ mutex = "free"
    /\ observed' = [cloud |-> gen.cloud.routes, artifact |-> gen.artifact.routes]
    /\ UNCHANGED << state, published, health, mutex, Checks, trackerPc,
                    pendingUpdate, timer, wg, refresherPc, worker, refreshNo,
                    nUpdates, gen, lastAdvertised, replies >>
    /\ UNCHANGED << httpVars, checkerVars, applied, events, cacheVars >>

(***************************************************************************)
(* Spec: the manager from construction on.                                 *)
(***************************************************************************)
HistoryInit ==
    /\ refreshNo = 0
    /\ nUpdates = 0
    /\ gen = [k \in Kinds |-> [routes |-> 0, accounts |-> 0]]
    /\ lastAdvertised = [k \in Kinds |-> {}]
    /\ replies = [k \in Kinds |-> <<>>]
    /\ observed = [cloud |-> 0, artifact |-> 0]
    /\ events = <<>>

Init ==
    /\ MakeClouddriverManager(ConfiguredClouddrivers)
    /\ trackerPc = "start"
    /\ pendingUpdate = NoUpdate
    /\ timer = "stopped"
    /\ wg = 0
    /\ refresherPc = "idle"
    /\ worker = [k \in Kinds |-> IdleWorker]
    /\ HistoryInit
    /\ HTTPIdle
    /\ makeHealth
    /\ applied = NotApplied
    /\ NoCacheClients

updateAccounts ==
    \/ UpdateLock("cloud")
    \/ UpdateReceive("cloud", TrackerReplies("cloud"), FALSE)
    \/ UpdatePublishRoutes("cloud")
    \/ UpdatePublishAccounts("cloud")
    \/ UpdateUnlock("cloud")

updateArtifactAccounts ==
    \/ UpdateLock("artifact")
    \/ UpdateReceive("artifact", TrackerReplies("artifact"), FALSE)
    \/ UpdatePublishRoutes("artifact")
    \/ UpdatePublishAccounts("artifact")
    \/ UpdateUnlock("artifact")

Next ==
    \/ accountTrackerStart
    \/ updateAllAccountsDone
    \/ accountTrackerSetHealth
    \/ accountTrackerTimer
    \/ accountTrackerReceive
    \/ handleUpdate
    \/ updateAccounts
    \/ updateArtifactAccounts
    \/ HealthyBackends

Spec == Init /\ [][Next]_vars


(***************************************************************************)
(* SpecFetchCreds: one poll (updateAccounts or updateArtifactAccounts) of  *)
(* the first refresh, for every configuration of a bounded set and every   *)
(* reply of a bounded set, the replies kept in the history.  The poll of   *)
(* the other kind has already returned, all of its backends having failed. *)
(***************************************************************************)
FetchCredsPriorities == {0, 5}

FetchCredsConfigs ==
    { << ClouddriverConfig("a", "http://a", pa, FALSE),
         ClouddriverConfig("b", "http://b", pb, TRUE),
         ClouddriverConfig("c", "http://c", pc, FALSE) >> :
      pa \in FetchCredsPriorities, pb \in FetchCredsPriorities,
      pc \in FetchCredsPriorities }

FetchCredsReplies ==
    { TransportError,
      Reply(404, ArrayBody(<<X1>>)),
      Reply(200, JunkBody),
      Reply(200, NullBody),
      Reply(200, ArrayBody(<<X1>>)),
      Reply(200, ArrayBody(<<X2, Y1>>)),
      Reply(200, ArrayBody(<<Y1, X1, X1>>)) }

InitFetchCreds ==
    \E clouddrivers \in FetchCredsConfigs, kind \in Kinds :
        /\ MakeClouddriverManager(clouddrivers)
        /\ trackerPc = "firstSync"
        /\ pendingUpdate = NoUpdate
        /\ timer = "stopped"
        /\ wg = 1
        /\ refresherPc = "wait"
        /\ worker = [k \in Kinds |->
                        IF k = kind THEN [IdleWorker EXCEPT !.pc = "start"]
                        ELSE IdleWorker]
        /\ refreshNo = 1
        /\ nUpdates = 0
        /\ gen = [k \in Kinds |->
                    IF k = kind THEN [routes |-> 0, accounts |-> 0]
                    ELSE [routes |-> 1, accounts |-> 1]]
        /\ lastAdvertised = [k \in Kinds |-> {}]
        /\ replies = [k \in Kinds |-> <<>>]
        /\ observed = [cloud |-> 0, artifact |-> 0]
        /\ events = <<>>
        /\ HTTPIdle
        /\ makeHealth
        /\ applied = NotApplied
        /\ NoCacheClients

NextFetchCreds ==
    \/ \E kind \in Kinds :
          \/ UpdateLock(kind)
          \/ UpdateReceive(kind, FetchCredsReplies, TRUE)
          \/ UpdatePublishRoutes(kind)
          \/ UpdatePublishAccounts(kind)
          \/ UpdateUnlock(kind)
    \/ updateAllAccountsDone
    \/ accountTrackerSetHealth

SpecFetchCreds == InitFetchCreds /\ [][NextFetchCreds]_vars

(***************************************************************************)
(* The HTTP server.  A request is a method, a path (its segments: "/" is   *)
(* <<>>, "/artifacts/fetch/" is <<"artifacts", "fetch", "">>), the query    *)
(* parameters and a body.  JSON values are tagged records.  Paths are in   *)
(* canonical form: mux redirects any other path before it matches routes.  *)
(***************************************************************************)
JStr(s) == [t |-> "string", v |-> s]

JNum(s) == [t |-> "number", v |-> s]

JObj(f) == [t |-> "object", f |-> f]

JArr(items) == [t |-> "array", items |-> items]

\* a Go map literal of one, two entries
M1(k, v) == MapPut(EmptyMap, k, v)

M2(k1, v1, k2, v2) == MapPut(M1(k1, v1), k2, v2)

\* a request body: io.ReadAll fails, or the text read, by what json.Unmarshal
\* makes of it
UnreadableBody == [readErr |-> TRUE, kind |-> "junk"]

TextBody(kind, json) == [readErr |-> FALSE, kind |-> kind, json |-> json]

NoBody == TextBody("junk", JStr(""))

Request(method, path, query, body) ==
    [method |-> method, path |-> path, query |-> query, body |-> body,
     header |-> EmptyMap]

\* the request r arriving with the headers h (an http.Header: canonical key
\* -> the values in order)
WithHeader(r, h) == [r EXCEPT !.header = h]

\* a path segment of a route template: a literal or a {variable}
L(s) == [lit |-> s, var |-> ""]

V(name) == [lit |-> "", var |-> name]

Route(kind, template, methods, h) ==
    [kind |-> kind, template |-> template, methods |-> methods, handler |-> h]

MutatingMethods ==
    {"POST", "CONNECT", "DELETE", "OPTIONS", "PATCH", "PUT", "TRACE"}

\* runHTTPServer registers /health first, then routes(mux) in this order
routes ==
    << Route("exact",  <<L("health")>>, {"GET"}, "healthHTTPHandler"),
       Route("exact",  <<L("applications")>>, {"GET"}, "fetchList"),
       Route("exact",  <<L("applications"), V("name"), L("clusters")>>, {"GET"}, "fetchMaps"),
       Route("exact",  <<L("applications"), V("name"), L("loadBalancers")>>, {"GET"}, "fetchList"),
       Route("exact",  <<L("applications"), V("name"), L("serverGroupManagers")>>, {"GET"}, "fetchList"),
       Route("exact",  <<L("applications"), V("name"), L("serverGroups")>>, {"GET"}, "fetchList"),
       Route("exact",  <<L("artifacts"), L("credentials")>>, {"GET"}, "fetchUniqueList"),
       Route("exact",  <<L("artifacts"), L("fetch")>>, {"PUT"}, "artifactsPut"),
       Route("exact",  <<L("artifacts"), L("fetch"), L("")>>, {"PUT"}, "artifactsPut"),
       Route("exact",  <<L("aws"), L("images"), L("find")>>, {"GET"}, "fetchList"),
       Route("exact",  <<L("aws"), L("ops")>>, {"POST"}, "cloudOpsPost"),
       Route("prefix", <<L("cache")>>, {"POST"}, "handleCachePost"),
       Route("exact",  <<L("credentials")>>, {"GET"}, "fetchList"),
       Route("exact",  <<L("credentials"), V("account")>>, {"GET"}, "singleItemByIDPath"),
       Route("exact",  <<L("dockerRegistry"), L("images"), L("find")>>, {"GET"}, "singleItemByOptionalQueryID"),
       Route("exact",  <<L("features"), L("stages")>>, {"GET"}, "fetchFeatureList"),
       Route("exact",  <<L("instanceTypes")>>, {"GET"}, "fetchList"),
       Route("exact",  <<L("keyPairs")>>, {"GET"}, "fetchList"),
       Route("exact",  <<L("kubernetes"), L("ops")>>, {"POST"}, "cloudOpsPost"),
       Route("exact",  <<L("securityGroups")>>, {"GET"}, "fetchMaps"),
       Route("exact",  <<L("subnets"), L("aws")>>, {"GET"}, "fetchList"),
       Route("prefix", <<L("applications"), V("name"), L("clusters"), V("account")>>, {"GET"}, "singleItemByIDPath"),
       Route("prefix", <<L("applications"), V("name"), L("loadBalancers"), V("account")>>, {"GET"}, "singleItemByIDPath"),
       Route("prefix", <<L("applications"), V("name"), L("serverGroups"), V("account")>>, {"GET"}, "singleItemByIDPath"),
       Route("prefix", <<L("instances"), V("account")>>, {"GET"}, "singleItemByIDPath"),
       Route("prefix", <<L("manifests"), V("account")>>, {"GET"}, "singleItemByIDPath"),
       Route("exact",  <<L("networks"), L("aws")>>, {"GET"}, "fetchList"),
       Route("prefix", <<L("securityGroups"), V("account")>>, {"GET"}, "singleItemByIDPath"),
       Route("prefix", <<L("serverGroups"), V("account")>>, {"GET"}, "singleItemByIDPath"),
       Route("prefix", <<L("task")>>, {"GET"}, "broadcast"),
       Route("exact",  <<L("_internal"), L("accountRoutes")>>, {"GET"}, "accountRoutesRequest"),
       Route("exact",  <<L("_internal"), L("accounts")>>, {"GET"}, "accountsRequest"),
       Route("prefix", <<>>, {"GET"}, "redirect"),
       Route("prefix", <<>>, MutatingMethods, "failAndLog") >>

\* the routes before the two catch-all ones
SpecificRoutes == 1 .. (Len(routes) - 2)

\* pairs <<s, p>> of the path segments in use where p is a proper prefix of
\* the string s
ProperPrefixes == { <<"cachefoo", "cache">>, <<"tasks", "task">> }

HasPrefix(s, p) == s = p \/ p = "" \/ <<s, p>> \in ProperPrefixes

\* one template segment against one path segment, matched to its end
SegmentMatches(t, seg) == IF t.var # "" THEN seg # "" ELSE seg = t.lit

\* the path matcher of a route: HandleFunc matches the whole path,
\* PathPrefix a prefix of its text
PathMatches(route, path) ==
    LET tpl == route.template
        n == Len(tpl)
    IN IF route.kind = "exact"
       THEN /\ Len(path) = n
            /\ \A i \in 1..n : SegmentMatches(tpl[i], path[i])
       ELSE /\ Len(path) >= n
            /\ \A i \in 1..(n - 1) : SegmentMatches(tpl[i], path[i])
            /\ n > 0 =>
                  IF tpl[n].var # "" THEN path[n] # ""
                  ELSE HasPrefix(path[n], tpl[n].lit)

RouteMatches(route, r) ==
    PathMatches(route, r.path) /\ r.method \in route.methods

\* Match without the method matchers
MatchAnyMethod(r) ==
    LET hits == { i \in DOMAIN routes : PathMatches(routes[i], r.path) }
    IN IF hits # {}
       THEN routes[CHOOSE i \in hits : \A j \in hits : i <= j].handler
       ELSE "notFound"

\* mux.Router.Match: the first route, in registration order, that matches
\* path and method; else 405 if some path matched, else 404
Match(r) ==
    LET hits == { i \in DOMAIN routes : RouteMatches(routes[i], r) }
    IN IF hits # {}
       THEN routes[CHOOSE i \in hits : \A j \in hits : i <= j].handler
       ELSE IF \E i \in DOMAIN routes : PathMatches(routes[i], r.path)
       THEN "methodNotAllowed"
       ELSE "notFound"

\* the index of the route Match chose, 0 if none
MatchedRoute(r) ==
    LET hits == { i \in DOMAIN routes : RouteMatches(routes[i], r) }
    IN IF hits = {} THEN 0 ELSE CHOOSE i \in hits : \A j \in hits : i <= j

\* mux.Vars(req)[v] for the matched route
Vars(r, v) ==
    LET tpl == routes[MatchedRoute(r)].template
        at == { i \in DOMAIN tpl : tpl[i].var = v }
    IN IF at = {} THEN "" ELSE r.path[CHOOSE i \in at : TRUE]

\* req.FormValue(v)
FormValue(r, v) == IF v \in DOMAIN r.query THEN r.query[v] ELSE ""

(***************************************************************************)
(* Decoding of request bodies.                                             *)
(***************************************************************************)
JNull == [t |-> "null"]

\* json.Unmarshal of one string field of a struct out of a JSON object
StringField(obj, name) ==
    IF name \notin DOMAIN obj.f THEN [err |-> FALSE, v |-> ""]
    ELSE IF obj.f[name].t = "string" THEN [err |-> FALSE, v |-> obj.f[name].v]
    ELSE IF obj.f[name].t = "null" THEN [err |-> FALSE, v |-> ""]
    ELSE [err |-> TRUE, v |-> ""]

\* json.Unmarshal of a JSON value into an AccountStruct
UnmarshalAccountStruct(json) ==
    IF json.t = "null"
    THEN [err |-> FALSE, Account |-> "", Credentials |-> ""]
    ELSE IF json.t # "object"
    THEN [err |-> TRUE, Account |-> "", Credentials |-> ""]
    ELSE [err |-> StringField(json, "account").err
                    \/ StringField(json, "credentials").err,
          Account |-> StringField(json, "account").v,
          Credentials |-> StringField(json, "credentials").v]

\* AccountName looking at Credentials before Account
AccountNameCredentialsFirst(a) ==
    IF a.Credentials # "" THEN a.Credentials
    ELSE IF a.Account # "" THEN a.Account
    ELSE ""

\* AccountStruct.AccountName
AccountName(a) ==
    IF a.Account # "" THEN a.Account
    ELSE IF a.Credentials # "" THEN a.Credentials
    ELSE ""

\* getArtifactAccountName: [err, name]
getArtifactAccountName(body) ==
    IF body.kind = "junk" THEN [err |-> TRUE, name |-> ""]
    ELSE IF body.json.t = "null" THEN [err |-> FALSE, name |-> ""]
    ELSE IF body.json.t # "object" THEN [err |-> TRUE, name |-> ""]
    ELSE [err |-> StringField(body.json, "artifactAccount").err,
          name |-> IF StringField(body.json, "artifactAccount").err THEN ""
                   ELSE StringField(body.json, "artifactAccount").v]

\* cloudOpsPost: json.Unmarshal(data, &list) with list a
\* []map[string]AccountStruct fails
CloudOpsUnmarshalFails(body) ==
    \/ body.kind = "junk"
    \/ body.json.t \notin {"null", "array"}
    \/ /\ body.json.t = "array"
       /\ \E i \in DOMAIN body.json.items :
             LET item == body.json.items[i]
             IN \/ item.t \notin {"null", "object"}
                \/ /\ item.t = "object"
                   /\ \E k \in DOMAIN item.f :
                         UnmarshalAccountStruct(item.f[k]).err

\* cloudOpsPost: the non-empty account names of the subitems of the list
CloudOpsAccountNames(body) ==
    IF body.json.t # "array" THEN {}
    ELSE LET list == body.json.items
             objects == { i \in DOMAIN list : list[i].t = "object" }
         IN UNION { { AccountName(UnmarshalAccountStruct(list[i].f[k])) :
                        k \in DOMAIN list[i].f } : i \in objects } \ {""}

(***************************************************************************)
(* Handlers that send the request to one backend.                          *)
(***************************************************************************)
\* bodies passed through as bytes: none written, empty, or some text
NoBodyWritten == [kind |-> "none"]

EmptyText == [kind |-> "empty"]

Text(s) == [kind |-> "text", text |-> s]

Response(status, body) == [status |-> status, body |-> body]

\* textproto.CanonicalMIMEHeaderKey, over the keys the code passes
CanonicalKey(k) == IF k = "authorization" THEN "Authorization" ELSE k

\* http.Header.Set
HeaderSet(h, k, v) == MapPut(h, CanonicalKey(k), <<v>>)

ignoredHeaders ==
    {"Accept-Encoding", "Connection", "Content-Length", "Content-Type",
     "User-Agent"}

\* copyHeaders that skips nothing
copyHeadersAll(dst, src) ==
    [k \in DOMAIN dst \cup DOMAIN src |->
        IF k \notin DOMAIN src THEN dst[k]
        ELSE IF k \in DOMAIN dst THEN dst[k] \o src[k]
        ELSE src[k]]

\* copyHeaders(dst, src): dst.Add(k, v) for every value of every key of src
\* that is not ignored; the values of a key keep their order
copyHeaders(dst, src) ==
    LET copied == DOMAIN src \ ignoredHeaders
    IN [k \in DOMAIN dst \cup copied |->
           IF k \notin copied THEN dst[k]
           ELSE IF k \in DOMAIN dst THEN dst[k] \o src[k]
           ELSE src[k]]

\* fmt.Sprintf("Bearer %s", token)
Bearer(token) == "Bearer " \o token

\* the three places where a request to a backend is built
Fetcher(h) ==
    IF h \in {"cloudOpsPost", "handleCachePost", "artifactsPut"}
    THEN "fetchWithBody"
    ELSE IF h = "redirect" THEN "redirect"
    ELSE "fetchGet"

\* if token != "" { Header.Set("authorization", "Bearer " + token) }
withToken(h, token) ==
    IF token # "" THEN HeaderSet(h, "authorization", Bearer(token)) ELSE h

\* the header of the request fetchGet, fetchWithBody and redirect send
OutboundHeader(fetcher, token, headers) ==
    LET copied == copyHeaders(EmptyMap, headers)
        accept == IF fetcher = "redirect" THEN copied
                  ELSE HeaderSet(copied, "Accept", "application/json")
        ctype == IF fetcher = "fetchWithBody"
                 THEN HeaderSet(accept, "Content-Type",
                                "application/json; charset=UTF-8")
                 ELSE accept
    IN withToken(ctype, token)

\* the request a handler sends to the backend url: fetchGet sends no body,
\* fetchWithBody and redirect the bytes read from the inbound request;
\* ctx is the context the call's context is derived from
Call(url, method, r) ==
    [url |-> url.URL, token |-> url.token, method |-> method,
     path |-> r.path, query |-> r.query,
     header |-> OutboundHeader(Fetcher(handler), url.token, r.header),
     body |-> IF Fetcher(handler) = "fetchGet" THEN NoBodyWritten ELSE r.body,
     ctx |-> IF handler = "redirect" THEN "context.Background()"
             ELSE "req.Context()"]

\* the router hands the request to the handler of the first matching route
ServeHTTP(Requests) ==
    /\ hpc = "idle"
    /\ \E r \in Requests :
          /\ req' = r
          /\ handler' = Match(r)
    /\ hpc' = "handler"
    /\ UNCHANGED << trackerVars, published, upstream, children, acc,
                    response, arrivals >>

At(h) == hpc = "handler" /\ handler = h

\* the handler writes its response without calling a backend
Finish(status, body) ==
    /\ response' = Response(status, body)
    /\ hpc' = "done"
    /\ UNCHANGED upstream

\* the handler sends the request to url and waits for the reply
Forward(url, method) ==
    /\ upstream' = upstream \cup {Call(url, method, req)}
    /\ hpc' = "upstream"
    /\ UNCHANGED response

\* mux answers a request no route takes
muxError ==
    /\ hpc = "handler"
    /\ handler \in {"methodNotAllowed", "notFound"}
    /\ Finish(IF handler = "notFound" THEN 404 ELSE 405, NoBodyWritten)
    /\ UNCHANGED << trackerVars, published, req, handler, children, acc,
                    arrivals >>

singleItemByIDPath ==
    /\ At("singleItemByIDPath")
    /\ mutex = "free"
    /\ LET url == findCloudRoute(Vars(req, "account"))
       IN IF ~url.found
          THEN Finish(503, NoBodyWritten)
          ELSE Forward(url.val, "GET")
    /\ UNCHANGED << trackerVars, published, req, handler, children, acc,
                    arrivals >>

\* the response fetchFrom writes for the reply of the backend
fetchFromResponse(reply) ==
    IF reply.err THEN Response(503, NoBodyWritten)
    ELSE IF ~StatusCodeOK(reply.code)
    THEN Response(reply.code,
                  IF reply.body = EmptyText THEN NoBodyWritten ELSE reply.body)
    ELSE Response(reply.code, reply.body)

TargetReplies ==
    { TransportError,
      Reply(200, Text("ok")),
      Reply(201, Text("created")),
      Reply(404, EmptyText),
      Reply(500, Text("boom")) }

fetchFrom ==
    /\ hpc = "upstream"
    /\ handler \in {"singleItemByIDPath", "singleItemByOptionalQueryID"}
    /\ \E reply \in TargetReplies : response' = fetchFromResponse(reply)
    /\ hpc' = "done"
    /\ UNCHANGED << trackerVars, published, req, handler, upstream, children,
                    acc, arrivals >>

cloudOpsPost ==
    /\ At("cloudOpsPost")
    /\ mutex = "free"
    /\ IF req.body.readErr
       THEN Finish(503, NoBodyWritten)
       ELSE IF CloudOpsUnmarshalFails(req.body)
       THEN Finish(503, NoBodyWritten)
       ELSE LET names == CloudOpsAccountNames(req.body)
                foundURLs == { findCloudRoute(n).val :
                                 n \in { a \in names : findCloudRoute(a).found } }
            IN IF foundURLs = {}
               THEN Finish(503, NoBodyWritten)
               ELSE \E url \in foundURLs : Forward(url, req.method)
    /\ UNCHANGED << trackerVars, published, req, handler, children, acc,
                    arrivals >>

handleCachePost ==
    /\ At("handleCachePost")
    /\ mutex = "free"
    /\ IF req.body.readErr
       THEN Finish(503, NoBodyWritten)
       ELSE IF req.body.kind = "junk"
       THEN Finish(503, NoBodyWritten)
       ELSE LET item == UnmarshalAccountStruct(req.body.json)
                url == findCloudRoute(AccountName(item))
            IN IF item.err THEN Finish(503, NoBodyWritten)
               ELSE IF AccountName(item) = "" THEN Finish(503, NoBodyWritten)
               ELSE IF ~url.found THEN Finish(503, NoBodyWritten)
               ELSE Forward(url.val, req.method)
    /\ UNCHANGED << trackerVars, published, req, handler, children, acc,
                    arrivals >>

artifactsPut ==
    /\ At("artifactsPut")
    /\ mutex = "free"
    /\ IF req.body.readErr
       THEN Finish(503, NoBodyWritten)
       ELSE LET account == getArtifactAccountName(req.body)
                url == findArtifactRoute(account.name)
            IN IF account.err THEN Finish(503, NoBodyWritten)
               ELSE IF account.name = "" THEN Finish(503, NoBodyWritten)
               ELSE IF ~url.found THEN Finish(503, NoBodyWritten)
               ELSE Forward(url.val, req.method)
    /\ UNCHANGED << trackerVars, published, req, handler, children, acc,
                    arrivals >>

\* what cloudOpsPost, handleCachePost and artifactsPut write for the reply
\* fetchWithBody returned
fetchWithBodyResponse(reply) ==
    IF reply.err THEN Response(503, NoBodyWritten)
    ELSE IF ~StatusCodeOK(reply.code) THEN Response(reply.code, NoBodyWritten)
    ELSE Response(200, reply.body)

fetchWithBody ==
    /\ hpc = "upstream"
    /\ handler \in {"cloudOpsPost", "handleCachePost", "artifactsPut"}
    /\ \E reply \in TargetReplies : response' = fetchWithBodyResponse(reply)
    /\ hpc' = "done"
    /\ UNCHANGED << trackerVars, published, req, handler, upstream, children,
                    acc, arrivals >>

failAndLog ==
    /\ At("failAndLog")
    /\ IF req.body.readErr
       THEN Finish(503, Text("read error"))
       ELSE Finish(503, NoBodyWritten)
    /\ UNCHANGED << trackerVars, published, req, handler, children, acc,
                    arrivals >>

redirect ==
    /\ At("redirect")
    /\ IF req.body.readErr
       THEN Finish(503, Text("read error"))
       ELSE /\ mutex = "free"
            /\ \E possibleURLs \in getHealthyClouddriverURLs :
                  IF possibleURLs = {}
                  THEN Finish(502, Text("no clouddrivers"))
                  ELSE \E url \in possibleURLs : Forward(url, req.method)
    /\ UNCHANGED << trackerVars, published, req, handler, children, acc,
                    arrivals >>

\* redirect, from http.DefaultClient.Do on
redirectReply ==
    /\ hpc = "upstream"
    /\ handler = "redirect"
    /\ \E reply \in TargetReplies :
          response' = IF reply.err THEN Response(503, Text("transport error"))
                      ELSE Response(reply.code, reply.body)
    /\ hpc' = "done"
    /\ UNCHANGED << trackerVars, published, req, handler, upstream, children,
                    acc, arrivals >>

(***************************************************************************)
(* Handlers that send the request to every backend that owns a route.      *)
(* Each backend gets a goroutine that fetches, decodes and sends its       *)
(* result on the unbuffered channel retchan; the handler receives len(cds) *)
(* results, combining as it goes, and then writes the response.            *)
(***************************************************************************)
ObjectBody(fields) == [kind |-> "object", fields |-> fields]

Flag(name, enabled) == [Name |-> name, Enabled |-> enabled]

FetchError(data) == [err |-> TRUE, data |-> data]

Fetched(data) == [err |-> FALSE, data |-> data]

\* fetchListFromOneEndpoint without its check of the status code
fetchListFromOneEndpointAnyStatus(reply) ==
    IF reply.err THEN FetchError(<<>>)
    ELSE IF reply.body.kind = "null" THEN Fetched(<<>>)
    ELSE IF reply.body.kind # "array" THEN FetchError(<<>>)
    ELSE Fetched(reply.body.items)

\* fetchListFromOneEndpoint that decodes the body of a 404 like any other
fetchListFromOneEndpointDecode404(reply) ==
    IF reply.err THEN FetchError(<<>>)
    ELSE IF reply.code # 404 /\ ~StatusCodeOK(reply.code) THEN FetchError(<<>>)
    ELSE IF reply.body.kind = "null" THEN Fetched(<<>>)
    ELSE IF reply.body.kind # "array" THEN FetchError(<<>>)
    ELSE Fetched(reply.body.items)

\* the listFetchResult fetchListFromOneEndpoint sends
fetchListFromOneEndpoint(reply) ==
    IF reply.err THEN FetchError(<<>>)
    ELSE IF reply.code = 404 THEN Fetched(<<>>)
    ELSE IF ~StatusCodeOK(reply.code) THEN FetchError(<<>>)
    ELSE IF reply.body.kind = "null" THEN Fetched(<<>>)
    ELSE IF reply.body.kind # "array" THEN FetchError(<<>>)
    ELSE Fetched(reply.body.items)

\* the mapFetchResult fetchMapFromOneEndpoint sends
fetchMapFromOneEndpoint(reply) ==
    IF reply.err THEN FetchError(EmptyMap)
    ELSE IF reply.code = 404 THEN Fetched(EmptyMap)
    ELSE IF ~StatusCodeOK(reply.code) THEN FetchError(EmptyMap)
    ELSE IF reply.body.kind = "null" THEN Fetched(EmptyMap)
    ELSE IF reply.body.kind # "object" THEN FetchError(EmptyMap)
    ELSE Fetched(reply.body.fields)

\* the featureFetchResult fetchFeatureListFromOneEndpoint sends
fetchFeatureListFromOneEndpoint(reply) ==
    IF reply.err THEN FetchError(<<>>)
    ELSE IF ~StatusCodeOK(reply.code) THEN FetchError(<<>>)
    ELSE IF reply.body.kind = "null" THEN Fetched(<<>>)
    ELSE IF reply.body.kind # "array" THEN FetchError(<<>>)
    ELSE Fetched(reply.body.items)

\* a []byte: nil or not, and its content
Bytes(isNil, body) == [isNil |-> isNil, body |-> body]

\* the singletonFetchResult fetchSingletonFromOneEndpoint sends
fetchSingletonFromOneEndpoint(reply) ==
    IF reply.err THEN FetchError(Bytes(TRUE, EmptyText))
    ELSE IF reply.code = 404 THEN Fetched(Bytes(TRUE, EmptyText))
    ELSE IF ~StatusCodeOK(reply.code) THEN FetchError(Bytes(TRUE, EmptyText))
    ELSE Fetched(Bytes(FALSE, reply.body))

getKeyValue(item, target) ==
    IF item.t # "object" THEN ""
    ELSE IF target \notin DOMAIN item.f THEN ""
    ELSE IF item.f[target].t = "string" THEN item.f[target].v
    ELSE ""

\* combineUniqueLists, the loop over the items of one result, without the
\* seen check
RECURSIVE addUniqueNoSeen(_, _, _, _)
addUniqueNoSeen(data, keyName, ret, seen) ==
    IF data = <<>> THEN [ret |-> ret, seen |-> seen]
    ELSE LET itemKey == getKeyValue(Head(data), keyName)
         IN IF itemKey # ""
            THEN addUniqueNoSeen(Tail(data), keyName, Append(ret, Head(data)),
                                 seen \cup {itemKey})
            ELSE addUniqueNoSeen(Tail(data), keyName, ret, seen)

\* combineUniqueLists: the loop over the items of one result
RECURSIVE addUnique(_, _, _, _)
addUnique(data, keyName, ret, seen) ==
    IF data = <<>> THEN [ret |-> ret, seen |-> seen]
    ELSE LET itemKey == getKeyValue(Head(data), keyName)
         IN IF itemKey # "" /\ itemKey \notin seen
            THEN addUnique(Tail(data), keyName, Append(ret, Head(data)),
                           seen \cup {itemKey})
            ELSE addUnique(Tail(data), keyName, ret, seen)

\* combineUniqueLists: the body of the loop for one received result j
combineUniqueLists(a, j) ==
    IF j.err THEN a
    ELSE IF a.key = "" THEN [a EXCEPT !.ret = a.ret \o j.data]
    ELSE [a EXCEPT !.ret = addUnique(j.data, a.key, a.ret, a.seen).ret,
                   !.seen = addUnique(j.data, a.key, a.ret, a.seen).seen]

\* combineMaps that keeps the value a key already has
combineMapsFirstWins(a, j) ==
    IF j.err THEN a
    ELSE [a EXCEPT !.ret = [k \in DOMAIN a.ret \cup DOMAIN j.data |->
                               IF k \in DOMAIN a.ret THEN a.ret[k]
                               ELSE j.data[k]]]

\* combineMaps: the body of the loop for one received result j
combineMaps(a, j) ==
    IF j.err THEN a
    ELSE [a EXCEPT !.ret = [k \in DOMAIN a.ret \cup DOMAIN j.data |->
                               IF k \in DOMAIN j.data THEN j.data[k]
                               ELSE a.ret[k]]]

\* combineFeatureLists where the last flag seen wins
RECURSIVE orFlagsLastWins(_, _)
orFlagsLastWins(data, flags) ==
    IF data = <<>> THEN flags
    ELSE orFlagsLastWins(Tail(data),
                         MapPut(flags, Head(data).Name, Head(data).Enabled))

\* combineFeatureLists: flags[flag.Name] = flags[flag.Name] || flag.Enabled
\* for the flags of one result
RECURSIVE orFlags(_, _)
orFlags(data, flags) ==
    IF data = <<>> THEN flags
    ELSE LET flag == Head(data)
             old == IF flag.Name \in DOMAIN flags THEN flags[flag.Name]
                    ELSE FALSE
         IN orFlags(Tail(data), MapPut(flags, flag.Name, old \/ flag.Enabled))

\* combineFeatureLists: the body of the loop for one received result j
combineFeatureLists(a, j) ==
    IF j.err THEN a ELSE [a EXCEPT !.ret = orFlags(j.data, a.ret)]

\* getOneResponse that takes the data of every result without an error
getOneResponseLastWins(a, j) ==
    IF j.err THEN a ELSE [a EXCEPT !.ret = j.data]

\* getOneResponse: the body of the loop for one received result j
getOneResponse(a, j) ==
    IF j.err THEN a
    ELSE IF a.ret.body = EmptyText THEN [a EXCEPT !.ret = j.data]
    ELSE a

\* the loop of a combiner has received everything too early
loopDoneEarly(i, count) == i >= 1 \/ count = 0

\* for i := 0; i < count; i++ has ended
loopDone(i, count) == ~(i < count)

\* the items of the lists the backends return
IA1 == JObj(M2("name", JStr("a"), "v", JStr("1")))

IA2 == JObj(M2("name", JStr("a"), "v", JStr("2")))

IB == JObj(M1("name", JStr("b")))

IEmptyKey == JObj(M1("name", JStr("")))

INumberKey == JObj(M1("name", JNum("7")))

INoKey == JObj(M1("v", JStr("1")))

IScalar == JStr("a")

FanOutReplies(mode) ==
    CASE mode = "list" ->
           { TransportError,
             Reply(500, ArrayBody(<<IB>>)),
             Reply(404, ArrayBody(<<IA1>>)),
             Reply(200, JunkBody),
             Reply(200, ArrayBody(<<IA1, IB>>)),
             Reply(200, ArrayBody(<<IA2, INumberKey, IScalar, IEmptyKey,
                                    INoKey, IA2>>)) }
      [] mode = "map" ->
           { TransportError,
             Reply(500, ObjectBody(M1("k1", JStr("e")))),
             Reply(404, JunkBody),
             Reply(200, JunkBody),
             Reply(200, ObjectBody(M1("k1", JStr("p")))),
             Reply(200, ObjectBody(M2("k1", JStr("q"), "k2", JStr("r")))) }
      [] mode = "features" ->
           { TransportError,
             Reply(404, ArrayBody(<<Flag("f2", TRUE)>>)),
             Reply(200, JunkBody),
             Reply(200, ArrayBody(<<Flag("f1", FALSE)>>)),
             Reply(200, ArrayBody(<<Flag("f1", TRUE), Flag("f2", FALSE)>>)) }
      [] OTHER ->
           { TransportError,
             Reply(404, Text("not found")),
             Reply(500, Text("boom")),
             Reply(200, EmptyText),
             Reply(200, Text("t1")),
             Reply(200, Text("t2")) }

\* what the goroutine of one backend sends for the reply it got
EndpointResult(mode, reply) ==
    CASE mode = "list" -> fetchListFromOneEndpoint(reply)
      [] mode = "map" -> fetchMapFromOneEndpoint(reply)
      [] mode = "features" -> fetchFeatureListFromOneEndpoint(reply)
      [] OTHER -> fetchSingletonFromOneEndpoint(reply)

\* the body of the combining loop for one received result
Combine(a, j) ==
    CASE a.mode = "list" -> combineUniqueLists(a, j)
      [] a.mode = "map" -> combineMaps(a, j)
      [] a.mode = "features" -> combineFeatureLists(a, j)
      [] OTHER -> getOneResponse(a, j)

JBool(b) == [t |-> "bool", v |-> IF b THEN "true" ELSE "false"]

\* json.Marshal of a featureFlag: both members are omitempty
MarshalFeatureFlag(flag) ==
    JObj([k \in (IF flag.Name # "" THEN {"name"} ELSE {})
                   \cup (IF flag.Enabled THEN {"enabled"} ELSE {}) |->
             IF k = "name" THEN JStr(flag.Name) ELSE JBool(TRUE)])

\* the orders in which ranging over a Go map can visit the keys S
Orderings(S) ==
    { f \in [1..Cardinality(S) -> S] :
        \A i, j \in 1..Cardinality(S) : i # j => f[i] # f[j] }

\* retchan := make(...); cds := getHealthyClouddriverURLs(); one goroutine
\* per backend; the combiner starts with its empty result
StartFanOut(mode, keyName) ==
    /\ mutex = "free"
    /\ \E cds \in getHealthyClouddriverURLs :
          /\ children' = [u \in {key(v) : v \in cds} |->
                            [pc |-> "fetch", reply |-> NoReply,
                             result |-> Fetched(<<>>)]]
          /\ upstream' = upstream \cup {Call(v, "GET", req) : v \in cds}
          /\ acc' = [mode |-> mode, key |-> keyName, i |-> 0,
                     count |-> Cardinality(cds), seen |-> {},
                     ret |-> CASE mode = "list" -> <<>>
                               [] mode = "singleton" -> Bytes(FALSE, EmptyText)
                               [] OTHER -> EmptyMap]
    /\ hpc' = "combine"
    /\ UNCHANGED << trackerVars, published, req, handler, response, arrivals >>

fetchList ==
    \/ At("fetchList") /\ StartFanOut("list", "")
    \/ At("fetchUniqueList") /\ StartFanOut("list", "name")

fetchMaps == At("fetchMaps") /\ StartFanOut("map", "")

fetchFeatureList == At("fetchFeatureList") /\ StartFanOut("features", "")

broadcast == At("broadcast") /\ StartFanOut("singleton", "")

singleItemByOptionalQueryID ==
    /\ At("singleItemByOptionalQueryID")
    /\ \/ /\ FormValue(req, "account") = ""
          /\ StartFanOut("list", "")
       \/ /\ FormValue(req, "account") # ""
          /\ mutex = "free"
          /\ LET url == findCloudRoute(FormValue(req, "account"))
             IN IF ~url.found
                THEN Finish(503, NoBodyWritten)
                ELSE Forward(url.val, "GET")
          /\ UNCHANGED << trackerVars, published, req, handler, children,
                          acc, arrivals >>

\* the goroutine of backend u gets its reply and is ready to send its result
fetchFromOneEndpoint ==
    \E u \in DOMAIN children :
        /\ children[u].pc = "fetch"
        /\ \E reply \in FanOutReplies(acc.mode) :
              children' = [children EXCEPT ![u] =
                              [pc |-> "send", reply |-> reply,
                               result |-> EndpointResult(acc.mode, reply)]]
        /\ UNCHANGED << trackerVars, published, req, handler, hpc, upstream,
                        acc, response, arrivals >>

\* j := <-c in the combining loop, with the send of one goroutine
combine ==
    /\ hpc = "combine"
    /\ ~loopDone(acc.i, acc.count)
    /\ \E u \in DOMAIN children :
          /\ children[u].pc = "send"
          /\ children' = [children EXCEPT ![u].pc = "done"]
          /\ acc' = [Combine(acc, children[u].result) EXCEPT !.i = acc.i + 1]
          /\ arrivals' = Append(arrivals, [b |-> u, reply |-> children[u].reply])
    /\ UNCHANGED << trackerVars, published, req, handler, hpc, upstream,
                    response >>

\* the handler, after its combiner has returned: json.Marshal of a slice or
\* a map of decoded JSON values does not fail
writeResponse ==
    /\ hpc = "combine"
    /\ loopDone(acc.i, acc.count)
    /\ CASE acc.mode = "list" -> response' = Response(200, ArrayBody(acc.ret))
         [] acc.mode = "map" -> response' = Response(200, ObjectBody(acc.ret))
         [] acc.mode = "features" ->
              \E order \in Orderings(DOMAIN acc.ret) :
                  response' = Response(200, ArrayBody(
                      [i \in DOMAIN order |->
                          MarshalFeatureFlag(
                              Flag(order[i], acc.ret[order[i]]))]))
         [] OTHER ->
              response' = IF acc.ret.isNil
                          THEN Response(404, NoBodyWritten)
                          ELSE Response(200, acc.ret.body)
    /\ hpc' = "done"
    /\ UNCHANGED << trackerVars, published, req, handler, upstream, children,
                    acc, arrivals >>

(***************************************************************************)
(* SpecServe: one request, from the router to the response, against each   *)
(* fleet of a bounded set, the tracker being between two refreshes.        *)
(***************************************************************************)
ServeClouddrivers ==
    << ClouddriverConfig("a", "http://a", 0, FALSE),
       ClouddriverConfig("b", "http://b", 5, TRUE),
       ClouddriverConfig("c", "http://c", 0, FALSE) >>

BackendA == URLAndPriority("http://a", 0, "")

BackendB == URLAndPriority("http://b", 5, "")

BackendC == URLAndPriority("http://c", 0, "")

\* what a refresh can have published
ServeFleets ==
    { [cloudRoutes |-> EmptyMap, cloud |-> <<>>,
       artifactRoutes |-> EmptyMap, artifact |-> <<>>],
      [cloudRoutes |-> M1("x", BackendA), cloud |-> <<X1>>,
       artifactRoutes |-> EmptyMap, artifact |-> <<>>],
      [cloudRoutes |-> M2("x", BackendA, "y", BackendB), cloud |-> <<X1, Y1>>,
       artifactRoutes |-> M1("g", BackendC), artifact |-> <<G1>>] }

OpsBody(items) == TextBody("json", JArr(items))

OpsItem(field, name) == JObj(M1("createServerGroup", JObj(M1(field, JStr(name)))))

CloudOpsBodies ==
    { OpsBody(<<OpsItem("account", "x")>>),
      OpsBody(<<OpsItem("account", "z")>>),
      OpsBody(<<OpsItem("credentials", "g")>>),
      OpsBody(<<OpsItem("account", "z"), OpsItem("credentials", "y")>>),
      OpsBody(<<OpsItem("account", "x"), OpsItem("account", "y")>>),
      OpsBody(<<JObj(M1("deleteManifest", JObj(M1("artifactAccount", JStr("g")))))>>),
      OpsBody(<<JObj(M1("createServerGroup", JObj(M1("account", JNum("7")))))>>),
      OpsBody(<<>>),
      TextBody("json", JNull),
      TextBody("json", OpsItem("account", "x")),
      TextBody("junk", JStr("")),
      UnreadableBody }

CacheBodies ==
    { TextBody("json", JObj(M1("account", JStr("x")))),
      TextBody("json", JObj(M1("account", JStr("z")))),
      TextBody("json", JObj(M2("account", JStr(""), "credentials", JStr("y")))),
      TextBody("json", JObj(M2("account", JStr("z"), "credentials", JStr("x")))),
      TextBody("json", JObj(M1("credentials", JStr("g")))),
      TextBody("json", JObj(EmptyMap)),
      TextBody("json", JArr(<<>>)),
      TextBody("junk", JStr("")),
      UnreadableBody }

ArtifactBodies ==
    { TextBody("json", JObj(M1("artifactAccount", JStr("g")))),
      TextBody("json", JObj(M1("artifactAccount", JStr("x")))),
      TextBody("json", JObj(M1("artifactAccount", JStr("z")))),
      TextBody("json", JObj(M1("artifactAccount", JStr("")))),
      TextBody("json", JObj(M1("artifactAccount", JNum("7")))),
      TextBody("json", JNull),
      TextBody("junk", JStr("")),
      UnreadableBody }

GetPaths ==
    { <<>>, <<"unknown">>, <<"credentials">>, <<"credentials", "x">>,
      <<"credentials", "z">>, <<"credentials", "x", "extra">>,
      <<"artifacts", "credentials">>, <<"securityGroups">>,
      <<"securityGroups", "y", "sg-1">>, <<"features", "stages">>,
      <<"task", "t1">>, <<"tasks">>, <<"instances", "g">>,
      <<"instances", "">>, <<"applications", "app", "clusters", "z", "c1">>,
      <<"applications", "app", "clusters">> }

MutatingPaths ==
    { <<>>, <<"unknown">>, <<"credentials">>, <<"credentials", "x">>,
      <<"instances", "x">>, <<"task", "t1">>, <<"aws", "ops">>,
      <<"aws", "ops", "x">>, <<"kubernetes", "ops">>, <<"cache">>,
      <<"cachefoo">>, <<"cache", "kubernetes", "manifest">>,
      <<"artifacts", "fetch">>, <<"artifacts", "fetch", "">>,
      <<"artifacts", "fetch", "x">>, <<"health">>,
      <<"_internal", "accounts">> }

ServeRequests ==
    { Request("GET", path, EmptyMap, NoBody) : path \in GetPaths }
    \cup { Request("GET", <<"dockerRegistry", "images", "find">>,
                   M1("account", a), NoBody) : a \in {"", "x", "z"} }
    \cup { Request("GET", <<"dockerRegistry", "images", "find">>, EmptyMap, NoBody),
           Request("GET", <<"unknown">>, EmptyMap, UnreadableBody),
           Request("HEAD", <<"credentials">>, EmptyMap, NoBody) }
    \cup { Request(method, path, EmptyMap, body) :
             method \in MutatingMethods, path \in MutatingPaths,
             body \in {NoBody, UnreadableBody} }
    \cup { Request("POST", path, EmptyMap, body) :
             path \in {<<"aws", "ops">>, <<"kubernetes", "ops">>},
             body \in CloudOpsBodies }
    \cup { Request("POST", <<"cache", "kubernetes", "manifest">>, EmptyMap, body) :
             body \in CacheBodies }
    \cup { Request("PUT", path, EmptyMap, body) :
             path \in {<<"artifacts", "fetch">>, <<"artifacts", "fetch", "">>},
             body \in ArtifactBodies }

\* a manager between two refreshes that has published fleet, and no request
ServeFrom(fleet) ==
    /\ state = ConfigState(ServeClouddrivers)
    /\ cloudAccountRoutes = fleet.cloudRoutes
    /\ cloudAccounts = fleet.cloud
    /\ artifactAccountRoutes = fleet.artifactRoutes
    /\ artifactAccounts = fleet.artifact
    /\ health = NoError
    /\ mutex = "free"
    /\ Checks = AddCheck(ConfigChecks(ServeClouddrivers),
                         "ClouddriverManager", TRUE, "ClouddriverManager")
    /\ trackerPc = "loop"
    /\ pendingUpdate = NoUpdate
    /\ timer = "armed"
    /\ wg = 0
    /\ refresherPc = "idle"
    /\ worker = [k \in Kinds |-> IdleWorker]
    /\ refreshNo = 1
    /\ nUpdates = 0
    /\ gen = [k \in Kinds |-> [routes |-> 1, accounts |-> 1]]
    /\ lastAdvertised = [cloud |-> DOMAIN fleet.cloudRoutes,
                         artifact |-> DOMAIN fleet.artifactRoutes]
    /\ replies = [k \in Kinds |-> <<>>]
    /\ observed = [cloud |-> 0, artifact |-> 0]
    /\ events = <<>>
    /\ HTTPIdle
    /\ makeHealth
    /\ applied = NotApplied
    /\ NoCacheClients

InitServe == \E fleet \in ServeFleets : ServeFrom(fleet)

NextServe ==
    \/ ServeHTTP(ServeRequests)
    \/ muxError
    \/ singleItemByIDPath
    \/ singleItemByOptionalQueryID
    \/ fetchFrom
    \/ cloudOpsPost
    \/ handleCachePost
    \/ artifactsPut
    \/ fetchWithBody
    \/ failAndLog
    \/ redirect
    \/ redirectReply
    \/ fetchList
    \/ fetchMaps
    \/ fetchFeatureList
    \/ broadcast
    \/ fetchFromOneEndpoint
    \/ combine
    \/ writeResponse

SpecServe == InitServe /\ [][NextServe]_vars

(***************************************************************************)
(* SpecForward: requests that arrive with headers, served by a fleet in    *)
(* which one backend has a bearer token and the other has none.            *)
(***************************************************************************)
BackendT == URLAndPriority("http://t", 0, "tok-t")

ForwardFleet ==
    [cloudRoutes |-> M2("x", BackendT, "y", BackendB), cloud |-> <<X1, Y1>>,
     artifactRoutes |-> M1("g", BackendT), artifact |-> <<G1>>]

\* what the client may send for a header key: nothing, or these values
InboundValues(k) ==
    IF k = "Accept" THEN <<"text/html">>
    ELSE IF k = "Authorization" THEN <<"Bearer client">>
    ELSE IF k = "Content-Type" THEN <<"text/plain">>
    ELSE IF k = "X-Header" THEN <<"this", "that">>
    ELSE <<"v">>

InboundKeySets ==
    SUBSET {"Accept", "Authorization", "Content-Type", "X-Header"}
    \cup { ignoredHeaders, ignoredHeaders \cup {"X-Header"} }

ForwardHeaders == { [k \in K |-> InboundValues(k)] : K \in InboundKeySets }

ForwardRequests ==
    { WithHeader(r, h) :
        r \in { Request("GET", <<"credentials", "x">>, EmptyMap, NoBody),
                Request("GET", <<"credentials", "y">>, EmptyMap, NoBody),
                Request("GET", <<"credentials">>, EmptyMap, NoBody),
                Request("GET", <<"artifacts", "credentials">>, EmptyMap, NoBody),
                Request("GET", <<"unknown">>, EmptyMap, NoBody),
                Request("POST", <<"aws", "ops">>, EmptyMap,
                        OpsBody(<<OpsItem("account", "x")>>)),
                Request("POST", <<"aws", "ops">>, EmptyMap,
                        OpsBody(<<OpsItem("account", "y")>>)) },
        h \in ForwardHeaders }

InitForward == ServeFrom(ForwardFleet)

NextForward ==
    \/ ServeHTTP(ForwardRequests)
    \/ singleItemByIDPath
    \/ fetchFrom
    \/ cloudOpsPost
    \/ fetchWithBody
    \/ redirect
    \/ redirectReply
    \/ fetchList
    \/ fetchFromOneEndpoint
    \/ combine
    \/ writeResponse

SpecForward == InitForward /\ [][NextForward]_vars

(***************************************************************************)
(* Functions applied on their own.  A Go string is the sequence of its     *)
(* characters.                                                             *)
(***************************************************************************)
\* every variable of the process
programVars == << state, published, health, mutex, Checks, trackerPc,
                  pendingUpdate, timer, wg, refresherPc, worker, refreshNo,
                  nUpdates, gen, lastAdvertised, replies, observed, httpVars,
                  checkerVars, events, cacheVars >>

\* the process at start with nothing configured, and one function about to
\* be applied to arguments from Inputs
ApplyInit(Inputs) ==
    /\ MakeClouddriverManager(<<>>)
    /\ trackerPc = "start"
    /\ pendingUpdate = NoUpdate
    /\ timer = "stopped"
    /\ wg = 0
    /\ refresherPc = "idle"
    /\ worker = [k \in Kinds |-> IdleWorker]
    /\ HistoryInit
    /\ HTTPIdle
    /\ makeHealth
    /\ applied \in Inputs
    /\ NoCacheClients

Chars == {"/", "a"}

\* the strings of at most n characters
Strings(n) == UNION { [1 .. k -> Chars] : k \in 0 .. n }

CombineURLInputs ==
    { [fn |-> "combineURL", base |-> base, uri |-> uri, done |-> FALSE,
       result |-> Returned(<<>>)] :
        base \in Strings(MaxLen), uri \in Strings(MaxLen) }

InitCombineURL == ApplyInit(CombineURLInputs)

applyCombineURL ==
    /\ applied.fn = "combineURL"
    /\ ~applied.done
    /\ applied' = [applied EXCEPT !.done = TRUE,
                                  !.result = combineURL(applied.base, applied.uri)]
    /\ UNCHANGED programVars

NextCombineURL == applyCombineURL

SpecCombineURL == InitCombineURL /\ [][NextCombineURL]_vars

(***************************************************************************)
(* SpecDiscovery: a manager between two refreshes that receives a bounded  *)
(* sequence of discovery events.  Two of the identities the events carry   *)
(* differ as pairs and give the same key, a third one is named like the    *)
(* key of a configured clouddriver.                                        *)
(***************************************************************************)
MaxEvents == 3

DiscoveryEvent(agent, name, op, url) ==
    [Operation |-> op, AgentName |-> agent, Name |-> name,
     URL |-> url, Token |-> "tok",
     Annotations |-> [uiUrl |-> "", priority |-> "",
                      disableArtifactAccounts |-> ""]]

\* (agentName, name, the URL its updates carry)
DiscoveredIdentities ==
    { << "a:b", "c", "http://d" >>,
      << "a", "b:c", "http://e" >>,
      << "config", "a", "http://f" >> }

DiscoveryEvents ==
    { DiscoveryEvent(id[1], id[2], op, id[3]) :
        id \in DiscoveredIdentities, op \in {"update", "delete"} }
    \cup { DiscoveryEvent("a:b", "c", "create", "http://d") }

\* case update := <-updateChan, for the events of DiscoveryEvents
receiveEvent ==
    /\ trackerPc = "loop"
    /\ Len(events) < MaxEvents
    /\ \E update \in DiscoveryEvents : pendingUpdate' = update
    /\ trackerPc' = "handleUpdate"
    /\ UNCHANGED << state, published, health, mutex, Checks, timer, wg,
                    refresherPc, worker, refreshNo, nUpdates, gen,
                    lastAdvertised, replies, observed >>
    /\ UNCHANGED << httpVars, checkerVars, applied, events, cacheVars >>

InitDiscovery == \E fleet \in ServeFleets : ServeFrom(fleet)

NextDiscovery ==
    \/ receiveEvent
    \/ handleUpdate

SpecDiscovery == InitDiscovery /\ [][NextDiscovery]_vars

(***************************************************************************)
(* SpecBodyRoute: the requests routed by an account named in their body,   *)
(* served by a fleet in which the accounts x and y have different backends *)
(* or the same one.                                                        *)
(***************************************************************************)
BodyRouteFleets ==
    { [cloudRoutes |-> M2("x", BackendA, "y", BackendB), cloud |-> <<X1, Y1>>,
       artifactRoutes |-> M1("g", BackendC), artifact |-> <<G1>>],
      [cloudRoutes |-> M2("x", BackendA, "y", BackendA), cloud |-> <<X1, Y1>>,
       artifactRoutes |-> M1("g", BackendC), artifact |-> <<G1>>] }

\* an element of a cloud operations body with the given string fields
OpsFields(fields) == JObj(M1("createServerGroup", JObj(fields)))

BodyRouteOpsBodies ==
    CloudOpsBodies
    \cup { OpsBody(<<OpsFields(M2("account", JStr("z"), "credentials", JStr("y")))>>),
           OpsBody(<<OpsFields(M2("account", JStr(""), "credentials", JStr("y")))>>),
           OpsBody(<<OpsFields(M1("artifactAccount", JStr("x")))>>),
           OpsBody(<<OpsFields(M2("account", JStr("z"), "artifactAccount", JStr("x")))>>),
           OpsBody(<<OpsItem("credentials", "y"), OpsItem("account", "x")>>),
           OpsBody(<<OpsItem("account", "x"), OpsItem("credentials", "g")>>) }

BodyRouteCacheBodies ==
    CacheBodies
    \cup { TextBody("json", JObj(M1("artifactAccount", JStr("x")))),
           TextBody("json", JObj(M1("credentials", JStr("y")))) }

BodyRouteRequests ==
    { Request("POST", path, EmptyMap, body) :
        path \in {<<"aws", "ops">>, <<"kubernetes", "ops">>},
        body \in BodyRouteOpsBodies }
    \cup { Request("POST", <<"cache", "kubernetes", "manifest">>, EmptyMap, body) :
             body \in BodyRouteCacheBodies }

InitBodyRoute == \E fleet \in BodyRouteFleets : ServeFrom(fleet)

NextBodyRoute ==
    \/ ServeHTTP(BodyRouteRequests)
    \/ cloudOpsPost
    \/ handleCachePost
    \/ fetchWithBody

SpecBodyRoute == InitBodyRoute /\ [][NextBodyRoute]_vars

(***************************************************************************)
(* SpecTargets: the requests sent to every backend that has a route, or to *)
(* one of them, served by fleets in which some backend of the registry has *)
(* no route, two routes have one backend, and two routes have the same URL *)
(* with different tokens.                                                  *)
(***************************************************************************)
BackendATok == URLAndPriority("http://a", 0, "tok-a")

TargetsFleets ==
    { [cloudRoutes |-> EmptyMap, cloud |-> <<>>,
       artifactRoutes |-> EmptyMap, artifact |-> <<>>],
      [cloudRoutes |-> M1("x", BackendA), cloud |-> <<X1>>,
       artifactRoutes |-> EmptyMap, artifact |-> <<>>],
      [cloudRoutes |-> M2("x", BackendA, "y", BackendB), cloud |-> <<X1, Y1>>,
       artifactRoutes |-> M1("g", BackendA), artifact |-> <<G1>>],
      [cloudRoutes |-> M2("x", BackendA, "y", BackendATok), cloud |-> <<X1, Y1>>,
       artifactRoutes |-> M1("g", BackendC), artifact |-> <<G1>>] }

TargetsRequests ==
    { Request("GET", path, EmptyMap, NoBody) :
        path \in { <<"credentials">>, <<"artifacts", "credentials">>,
                   <<"features", "stages">>, <<"task", "t1">>,
                   <<"unknown">> } }

InitTargets == \E fleet \in TargetsFleets : ServeFrom(fleet)

NextTargets ==
    \/ ServeHTTP(TargetsRequests)
    \/ fetchList
    \/ fetchFeatureList
    \/ broadcast
    \/ redirect
    \/ redirectReply
    \/ fetchFromOneEndpoint
    \/ combine
    \/ writeResponse

SpecTargets == InitTargets /\ [][NextTargets]_vars

(***************************************************************************)
(* SpecRemoval: the manager after its first refresh, with a discovered     *)
(* clouddriver in the registry that some routes point at; discovery events *)
(* for it and the refreshes that follow.                                   *)
(***************************************************************************)
DiscoveredC == ServiceUpdate("update", "5", "")

BackendDiscoveredC == URLAndPriority("http://c", 5, "tok")

RemovalFleets ==
    { [cloudRoutes |-> M2("x", BackendDiscoveredC, "y", BackendA),
       cloud |-> <<X1, Y1>>,
       artifactRoutes |-> M1("g", BackendDiscoveredC), artifact |-> <<G1>>],
      [cloudRoutes |-> M1("x", BackendDiscoveredC), cloud |-> <<X1>>,
       artifactRoutes |-> EmptyMap, artifact |-> <<>>] }

InitRemoval ==
    /\ state = MapPut(ConfigState(ConfiguredClouddrivers), UpdateKey(DiscoveredC),
                      makeTrackedClouddriverFromUpdate(DiscoveredC))
    /\ Checks = AddCheck(AddCheck(ConfigChecks(ConfiguredClouddrivers),
                                  "ClouddriverManager", TRUE, "ClouddriverManager"),
                         "clouddriver " \o UpdateKey(DiscoveredC), TRUE,
                         UpdateKey(DiscoveredC))
    /\ \E fleet \in RemovalFleets :
          /\ cloudAccountRoutes = fleet.cloudRoutes
          /\ cloudAccounts = fleet.cloud
          /\ artifactAccountRoutes = fleet.artifactRoutes
          /\ artifactAccounts = fleet.artifact
          /\ lastAdvertised = [cloud |-> DOMAIN fleet.cloudRoutes,
                               artifact |-> DOMAIN fleet.artifactRoutes]
    /\ health = NoError
    /\ mutex = "free"
    /\ trackerPc = "loop"
    /\ pendingUpdate = NoUpdate
    /\ timer = "armed"
    /\ wg = 0
    /\ refresherPc = "idle"
    /\ worker = [k \in Kinds |-> IdleWorker]
    /\ refreshNo = 1
    /\ nUpdates = 0
    /\ gen = [k \in Kinds |-> [routes |-> 1, accounts |-> 1]]
    /\ replies = [k \in Kinds |-> <<>>]
    /\ observed = [cloud |-> 0, artifact |-> 0]
    /\ events = << DiscoveredC @@ [at |-> 0] >>
    /\ HTTPIdle
    /\ makeHealth
    /\ applied = NotApplied
    /\ NoCacheClients

NextRemoval ==
    \/ updateAllAccountsDone
    \/ accountTrackerTimer
    \/ accountTrackerReceive
    \/ handleUpdate
    \/ updateAccounts
    \/ updateArtifactAccounts
    \/ HealthyBackends

SpecRemoval == InitRemoval /\ [][NextRemoval]_vars

(***************************************************************************)
(* SpecCache: the paginated cache.  RunCache serves the requests of a      *)
(* bounded number of clients; a client sends its request on requestChan    *)
(* and then reads its reply channel.  Both channels are unbuffered, so a   *)
(* send and its receive are one step.                                      *)
(***************************************************************************)
MaxClients == 2

nonCacheVars == << state, published, health, mutex, Checks, trackerPc,
                   pendingUpdate, timer, wg, refresherPc, worker, refreshNo,
                   nUpdates, gen, lastAdvertised, replies, observed, httpVars,
                   checkerVars, applied, events >>

\* fmt.Sprintf("%s::%s", username, queryURL)
CacheKey(username, queryURL) == username \o "::" \o queryURL

\* a CacheRequest; its ReplyChannel is the channel of the client that sends it
CacheRequest(username, queryURL, pageNumber, pageSize) ==
    [Username |-> username, QueryURL |-> queryURL,
     PageNumber |-> pageNumber, PageSize |-> pageSize]

CacheResponse(totalMatches, pageNumber, pageSize, platform, query, results) ==
    [TotalMatches |-> totalMatches, PageNumber |-> pageNumber,
     PageSize |-> pageSize, Platform |-> platform, Query |-> query,
     Results |-> results]

\* what c.update sends on updateChan
cacheUpdateResponse(username, queryURL) ==
    [username |-> username, queryURL |-> queryURL, query |-> "TODO",
     platform |-> "TODO", results |-> <<>>]

\* &cacheEntry{expiry: 0, waitingClients: []*CacheRequest{&request}};
\* createdFor is history: the (username, queryURL) of that request
cacheEntry(client, username, queryURL) ==
    [results |-> <<>>, platform |-> "", query |-> "", expiry |-> 0,
     waitingClients |-> <<client>>, createdFor |-> <<username, queryURL>>]

\* PaginatedCache.reply up to the send: the CacheResponse, or the panic of
\* entry.results[startOffset:endOffset] with bounds out of range
cacheReply(entry, request) ==
    LET startOffset == request.PageNumber * request.PageSize
        endOffset == startOffset + request.PageSize
        totalMatches == Len(entry.results)
        end == IF endOffset > totalMatches THEN totalMatches ELSE endOffset
    IN IF startOffset >= totalMatches
       THEN Returned(CacheResponse(totalMatches, request.PageNumber,
                                   request.PageSize, entry.platform,
                                   entry.query, <<>>))
       ELSE IF startOffset < 0 \/ end < startOffset
       THEN Panic
       ELSE Returned(CacheResponse(totalMatches, request.PageNumber,
                                   request.PageSize, entry.platform,
                                   entry.query,
                                   SubSeq(entry.results, startOffset + 1, end)))

\* request.ReplyChannel <- reply, received by the client that reads its
\* channel; the history keeps the entry the reply was made from
Deliver(cl, c, entry) ==
    [cl EXCEPT ![c].pc = "done",
               ![c].received = Append(@, [response |-> cacheReply(entry, cl[c].request).val,
                                          entry |-> entry.createdFor])]

\* the loop over waitingClients of the update case, from the i-th on, up to
\* the first reply that panics
RECURSIVE ReplyAll(_, _, _, _)
ReplyAll(cl, entry, waiting, i) ==
    IF i > Len(waiting) THEN [clients |-> cl, panic |-> FALSE]
    ELSE IF cacheReply(entry, cl[waiting[i]].request).panic
    THEN [clients |-> cl, panic |-> TRUE]
    ELSE ReplyAll(Deliver(cl, waiting[i], entry), entry, waiting, i + 1)

\* case request := <-c.requestChan
RunCacheRequest ==
    /\ cachePc = "select"
    /\ \E c \in DOMAIN clients :
          /\ clients[c].pc = "start"
          /\ LET request == clients[c].request
                 k == CacheKey(request.Username, request.QueryURL)
             IN IF k \notin DOMAIN cache
                THEN /\ fetches' = fetches \cup
                                     {[username |-> request.Username,
                                       queryURL |-> request.QueryURL]}
                     /\ cache' = MapPut(cache, k,
                                        cacheEntry(c, request.Username,
                                                   request.QueryURL))
                     /\ clients' = [clients EXCEPT ![c].pc = "waiting"]
                     /\ UNCHANGED cachePc
                ELSE IF Len(cache[k].waitingClients) = 0
                THEN IF cacheReply(cache[k], request).panic
                     THEN /\ cachePc' = "panicked"
                          /\ clients' = [clients EXCEPT ![c].pc = "waiting"]
                          /\ UNCHANGED << cache, fetches >>
                     ELSE /\ clients' = Deliver(clients, c, cache[k])
                          /\ UNCHANGED << cache, fetches, cachePc >>
                ELSE /\ cache' = [cache EXCEPT ![k].waitingClients = Append(@, c)]
                     /\ clients' = [clients EXCEPT ![c].pc = "waiting"]
                     /\ UNCHANGED << fetches, cachePc >>
    /\ UNCHANGED nonCacheVars

\* case update := <-c.updateChan, sent by a c.update goroutine
RunCacheUpdate ==
    /\ cachePc = "select"
    /\ \E u \in fetches :
          LET update == cacheUpdateResponse(u.username, u.queryURL)
              k == CacheKey(update.username, update.queryURL)
              entry == [cache[k] EXCEPT !.results = update.results,
                                        !.platform = update.platform,
                                        !.query = update.query]
              done == ReplyAll(clients, entry, entry.waitingClients, 1)
          IN /\ fetches' = fetches \ {u}
             /\ clients' = done.clients
             /\ IF done.panic
                THEN /\ cachePc' = "panicked"
                     /\ cache' = [cache EXCEPT ![k] = entry]
                ELSE /\ UNCHANGED cachePc
                     /\ cache' = [cache EXCEPT ![k] =
                                     [entry EXCEPT !.waitingClients = <<>>]]
    /\ UNCHANGED nonCacheVars

\* (username, queryURL): two pairs that differ and have "::" in different
\* places, and one without
CachePairs == { << "a::b", "c" >>, << "a", "b::c" >>, << "a", "c" >> }

CacheRequests ==
    { CacheRequest(pr[1], pr[2], pageNumber, 2) :
        pr \in CachePairs, pageNumber \in {-1, 0, 1} }

\* the process at start with nothing configured, the cache made and
\* running, and every client about to send its request
InitCache ==
    /\ MakeClouddriverManager(<<>>)
    /\ trackerPc = "start"
    /\ pendingUpdate = NoUpdate
    /\ timer = "stopped"
    /\ wg = 0
    /\ refresherPc = "idle"
    /\ worker = [k \in Kinds |-> IdleWorker]
    /\ HistoryInit
    /\ HTTPIdle
    /\ makeHealth
    /\ applied = NotApplied
    /\ MakePaginatedCache
    /\ clients \in [1 .. MaxClients ->
                      { [request |-> r, pc |-> "start", received |-> <<>>,
                         closed |-> FALSE] : r \in CacheRequests }]

NextCache ==
    \/ RunCacheRequest
    \/ RunCacheUpdate

SpecCache == InitCache /\ [][NextCache]_vars

(***************************************************************************)
(* The health checker of health.go: the list of checks, RunCheckers, and   *)
(* the /health handler.  AddCheck and RemoveCheck take h's lock for their  *)
(* whole body and are one step each.                                       *)
(***************************************************************************)
\* the error of a controllerManager check that fails
ControllerError == "controller not connected"

\* what a backend may answer to the GET of httpChecker.Check
HealthReplies ==
    { TransportError,
      Reply(199, JunkBody),
      Reply(200, JunkBody),
      Reply(399, JunkBody),
      Reply(400, JunkBody),
      Reply(503, JunkBody) }

\* httpChecker.Check
httpCheckerCheck(reply) ==
    IF reply.err THEN "transport error"
    ELSE IF reply.code >= 200 /\ reply.code < 400 THEN NoError
    ELSE "HTTP status code returned"

\* trackedClouddriver.Check
trackedClouddriverCheck(a) ==
    IF a.artifactHealth # NoError THEN a.artifactHealth ELSE a.accountHealth

\* ClouddriverManager.Check reads m.health under m's lock; accountTracker
\* writes it without the lock, so a call that overlaps the write can return
\* the value before or after it
ClouddriverManagerCheck ==
    IF trackerPc = "setHealth" THEN {health, NoError} ELSE {health}

\* what checker.Check() can return
CheckOutcomes(checker) ==
    IF checker = "ClouddriverManager" THEN ClouddriverManagerCheck
    ELSE IF checker = "controllerManager" THEN {NoError, ControllerError}
    ELSE IF checker \in DOMAIN state
         THEN {trackedClouddriverCheck(state[checker])}
    ELSE {httpCheckerCheck(reply) : reply \in HealthReplies}

\* the indicator runChecker holds when it returns: its parameter
runCheckerLocal(checker, err) ==
    [checker EXCEPT !.Healthy = (err = NoError),
                    !.Message = IF err = NoError THEN "OK"
                                ELSE checker.Service \o " ERROR " \o err,
                    !.LastChecked = 1]

\* h.Checks after h.runChecker(h.Checks[i]) whose check returned err.  The
\* parameter is a healthIndicator struct, passed by value: the assignments
\* are made to the copy, which is dropped on return.
runChecker(checks, i, err) ==
    LET checker == runCheckerLocal(checks[i], err)
    IN checks

\* h.Healthy as the loop at the end of a RunCheckers iteration leaves it
computeHealthy(checks) ==
    \A i \in DOMAIN checks : checks[i].ObserveOnly \/ checks[i].Healthy

\* every variable but those of the health checker
nonCheckerVars == << state, published, health, mutex, trackerPc, pendingUpdate,
                     timer, wg, refresherPc, worker, refreshNo, nUpdates, gen,
                     lastAdvertised, replies, observed, httpVars, applied,
                     events, cacheVars >>

\* go healthchecker.RunCheckers(15): up to the loop
RunCheckers ==
    /\ checkersPc = "notStarted"
    /\ hmutex = "free"
    /\ nextIndex' = 0
    /\ checkersCount' = Len(Checks)
    /\ checkersPc' = "sleep"
    /\ UNCHANGED << Checks, run, Healthy, lastRun, stopped, hmutex, checking,
                    nonCheckerVars >>

\* One iteration of the loop of RunCheckers, from the sleep on.  frequency /
\* count panics when count is 0, and h.Checks[nextIndex] when the list is
\* empty.  h.run is false unless something sets it, and then the iteration
\* returns at once.
RunCheckersIteration ==
    /\ checkersPc = "sleep"
    /\ hmutex = "free"
    /\ IF checkersCount = 0
       THEN /\ checkersPc' = "panicked"
            /\ UNCHANGED << Checks, nextIndex, checkersCount, Healthy, lastRun >>
       ELSE IF ~run
       THEN /\ checkersPc' = "returned"
            /\ checkersCount' = Len(Checks)
            /\ UNCHANGED << Checks, nextIndex, Healthy, lastRun >>
       ELSE IF Checks = <<>>
       THEN /\ checkersPc' = "panicked"
            /\ checkersCount' = 0
            /\ nextIndex' = 0
            /\ UNCHANGED << Checks, Healthy, lastRun >>
       ELSE LET i == IF nextIndex >= Len(Checks) THEN 0 ELSE nextIndex
            IN /\ (Checks[i + 1].checker = "ClouddriverManager" => mutex = "free")
               /\ \E err \in CheckOutcomes(Checks[i + 1].checker) :
                     /\ Checks' = runChecker(Checks, i + 1, err)
                     /\ lastRun' = MapPut(lastRun, Checks[i + 1].Service,
                                          err = NoError)
               /\ nextIndex' = i + 1
               /\ checkersCount' = Len(Checks)
               /\ Healthy' = computeHealthy(Checks')
               /\ UNCHANGED checkersPc
    /\ UNCHANGED << run, stopped, hmutex, checking, nonCheckerVars >>

\* StopCheckers
StopCheckers ==
    /\ ~stopped
    /\ run' = FALSE
    /\ stopped' = TRUE
    /\ UNCHANGED << Checks, Healthy, nextIndex, checkersCount, checkersPc,
                    lastRun, hmutex, checking, nonCheckerVars >>

\* h.runChecker(h.Checks[i]) on its own: the check of one stored indicator is
\* called and runChecker records what it returned
runCheckerCall ==
    /\ \E i \in DOMAIN Checks :
          /\ (Checks[i].checker = "ClouddriverManager" => mutex = "free")
          /\ \E err \in CheckOutcomes(Checks[i].checker) :
                /\ Checks' = runChecker(Checks, i, err)
                /\ lastRun' = MapPut(lastRun, Checks[i].Service, err = NoError)
    /\ UNCHANGED << run, Healthy, nextIndex, checkersCount, checkersPc, stopped,
                    hmutex, checking, nonCheckerVars >>

\* json.Marshal of a healthIndicator: every exported field is omitempty
MarshalHealthIndicator(c) ==
    JObj([k \in (IF c.Service # "" THEN {"service"} ELSE {})
                   \cup (IF c.Healthy THEN {"healthy"} ELSE {})
                   \cup (IF c.Message # "" THEN {"message"} ELSE {})
                   \cup (IF c.ObserveOnly THEN {"observeOnly"} ELSE {})
                   \cup (IF c.LastChecked # 0 THEN {"lastChecked"} ELSE {}) |->
             IF k = "service" THEN JStr(c.Service)
             ELSE IF k = "message" THEN JStr(c.Message)
             ELSE IF k = "lastChecked" THEN JNum("1")
             ELSE JBool(TRUE)])

\* json.Marshal(h)
MarshalHealth(healthy, checks) ==
    ObjectBody([k \in (IF healthy THEN {"healthy"} ELSE {})
                        \cup (IF checks # <<>> THEN {"checks"} ELSE {}) |->
                  IF k = "healthy" THEN JBool(TRUE)
                  ELSE JArr([i \in DOMAIN checks |->
                                MarshalHealthIndicator(checks[i])])])

\* health.HTTPHandler
healthHTTPHandler ==
    /\ At("healthHTTPHandler")
    /\ hmutex = "free"
    /\ Finish(IF Healthy THEN 200 ELSE 418, MarshalHealth(Healthy, Checks))
    /\ UNCHANGED << trackerVars, published, req, handler, children, acc,
                    arrivals >>

(***************************************************************************)
(* SpecHealth: the process as main leaves it, with one configured          *)
(* clouddriver and with or without a controller: the account tracker up to *)
(* the first firing of the refresh timer, the health checker and a GET     *)
(* /health.                                                                *)
(***************************************************************************)
HealthClouddrivers == << ClouddriverConfig("a", "http://a", 0, FALSE) >>

\* main: healthchecker.AddCheck(cd.Name, true, HTTPChecker(cd.HealthcheckURL))
\* for each configured clouddriver
RECURSIVE HTTPChecks(_, _)
HTTPChecks(checks, clouddrivers) ==
    IF clouddrivers = <<>> THEN checks
    ELSE HTTPChecks(AddCheck(checks, Head(clouddrivers).Name, TRUE,
                             makeTrackedClouddriverFromConfig(
                                 Head(clouddrivers)).healthcheckURL),
                    Tail(clouddrivers))

\* the checks main has registered when it starts RunCheckers
MainChecks(clouddrivers, controller) ==
    LET manager == AddCheck(ConfigChecks(clouddrivers), "ClouddriverManager",
                            TRUE, "ClouddriverManager")
        withController == IF controller
                          THEN AddCheck(manager, "controllerManager", FALSE,
                                        "controllerManager")
                          ELSE manager
    IN HTTPChecks(withController, clouddrivers)

HealthTrackerReplies(kind) ==
    IF kind = "cloud"
    THEN { TransportError, Reply(200, ArrayBody(<<X1>>)) }
    ELSE { Reply(200, ArrayBody(<<G1>>)) }

HealthRequests == { Request("GET", <<"health">>, EmptyMap, NoBody) }

InitHealth ==
    \E controller \in BOOLEAN :
        /\ state = ConfigState(HealthClouddrivers)
        /\ cloudAccountRoutes = EmptyMap
        /\ cloudAccounts = <<>>
        /\ artifactAccountRoutes = EmptyMap
        /\ artifactAccounts = <<>>
        /\ health = InitialSyncError
        /\ mutex = "free"
        /\ Checks = MainChecks(HealthClouddrivers, controller)
        /\ trackerPc = "start"
        /\ pendingUpdate = NoUpdate
        /\ timer = "stopped"
        /\ wg = 0
        /\ refresherPc = "idle"
        /\ worker = [k \in Kinds |-> IdleWorker]
        /\ HistoryInit
        /\ HTTPIdle
        /\ makeHealth
        /\ applied = NotApplied
        /\ NoCacheClients

HealthUpdateAccounts ==
    \/ UpdateLock("cloud")
    \/ UpdateReceive("cloud", HealthTrackerReplies("cloud"), FALSE)
    \/ UpdatePublishRoutes("cloud")
    \/ UpdatePublishAccounts("cloud")
    \/ UpdateUnlock("cloud")

HealthUpdateArtifactAccounts ==
    \/ UpdateLock("artifact")
    \/ UpdateReceive("artifact", HealthTrackerReplies("artifact"), FALSE)
    \/ UpdatePublishRoutes("artifact")
    \/ UpdatePublishAccounts("artifact")
    \/ UpdateUnlock("artifact")

NextHealth ==
    \/ accountTrackerStart
    \/ updateAllAccountsDone
    \/ accountTrackerSetHealth
    \/ accountTrackerReceive
    \/ handleUpdate
    \/ HealthUpdateAccounts
    \/ HealthUpdateArtifactAccounts
    \/ RunCheckers
    \/ RunCheckersIteration
    \/ StopCheckers
    \/ runCheckerCall
    \/ ServeHTTP(HealthRequests)
    \/ healthHTTPHandler

SpecHealth == InitHealth /\ [][NextHealth]_vars

(***************************************************************************)
(* Properties of the refresh.                                              *)
(***************************************************************************)
\* the URLAndPriority of registry entry b
Ref(b) == URLAndPriority(state[b].URL, state[b].Priority, state[b].token)

\* the poll of this kind of the current refresh has published its result
PollCompleted(kind) ==
    /\ refreshNo >= 1
    /\ gen[kind].accounts = refreshNo
    /\ worker[kind].pc \in {"unlock", "idle"}

\* positions, in arrival order, of the successful replies that advertise a
Advertisers(kind, a) ==
    { i \in DOMAIN replies[kind] : a \in Advertises(replies[kind][i].reply) }

\* C1: after a refresh, an account name advertised by the successful
\* replies of two or more backends is routed to one of those backends, and
\* to one whose priority is the maximum among them, in whatever order the
\* replies arrived.
C1_MaxPriorityWins ==
    \A kind \in Kinds, a \in AccountNames :
        (PollCompleted(kind) /\ Cardinality(Advertisers(kind, a)) >= 2) =>
            /\ a \in DOMAIN Routes(kind)
            /\ \E i \in Advertisers(kind, a) :
                  /\ Routes(kind)[a] = Ref(replies[kind][i].b)
                  /\ \A j \in Advertisers(kind, a) :
                        state[replies[kind][j].b].Priority
                            <= state[replies[kind][i].b].Priority

\* three backends advertise x; the one of lowest priority answered first
\* and the one of highest priority last
C1_Witness ==
    /\ PollCompleted("cloud")
    /\ Len(replies.cloud) = 3
    /\ Advertisers("cloud", "x") = {1, 2, 3}
    /\ state[replies.cloud[1].b].Priority < state[replies.cloud[3].b].Priority
    /\ cloudAccountRoutes["x"].Priority = 5

\* C3: in every published snapshot the account list holds exactly one
\* entry for each key of the route map of its kind and no other entry.
C3_AccountListMatchesRoutes ==
    \A kind \in Kinds :
        worker[kind].pc # "publishAccounts" =>
            /\ {Accounts(kind)[i].Name : i \in DOMAIN Accounts(kind)}
                  = DOMAIN Routes(kind)
            /\ Len(Accounts(kind)) = Cardinality(DOMAIN Routes(kind))

\* two backends advertise x and y, one of them x twice, and the later
\* reply took the route of x over
C3_Witness ==
    /\ PollCompleted("artifact")
    /\ Len(replies.artifact) = 2
    /\ replies.artifact[1].reply = Reply(200, ArrayBody(<<X2, Y1>>))
    /\ replies.artifact[2].reply = Reply(200, ArrayBody(<<Y1, X1, X1>>))
    /\ state[replies.artifact[1].b].Priority < state[replies.artifact[2].b].Priority
    /\ artifactAccountRoutes["x"] = Ref(replies.artifact[2].b)
    /\ artifactAccounts = <<X2, Y1>>

\* no refresh is running and one has completed
BetweenRefreshes == refresherPc = "idle" /\ refreshNo >= 1

\* C2: between refreshes findCloudRoute(a) reports "not found" exactly for
\* the names a that no successful /credentials reply of the last completed
\* refresh advertised.
C2_RoutableIffAdvertised ==
    BetweenRefreshes =>
        \A a \in AccountNames :
            (~findCloudRoute(a).found) <=> (a \notin lastAdvertised.cloud)

\* after the second refresh x is routable and y is not
C2_Witness ==
    /\ BetweenRefreshes
    /\ refreshNo = 2
    /\ findCloudRoute("x").found
    /\ ~findCloudRoute("y").found
    /\ lastAdvertised.cloud = {"x"}

C7_LockNotHeldAcrossIO ==
    \A kind \in Kinds :
        (worker[kind].pc = "fetch" /\ worker[kind].pending # {}) =>
            mutex # kind

(***************************************************************************)
(* Properties of the request handlers.                                     *)
(***************************************************************************)
\* the handler has taken the request up
Handled == hpc \notin {"idle", "handler"}

\* no request has gone to any backend
NoBackendRequest == upstream = {} /\ children = EmptyMap

\* the accounts the request names for its handler: in the path, in the
\* query, or in the body
NamedAccounts ==
    CASE handler = "singleItemByIDPath" -> {Vars(req, "account")}
      [] handler = "singleItemByOptionalQueryID" ->
           {FormValue(req, "account")} \ {""}
      [] handler = "cloudOpsPost" ->
           IF req.body.readErr \/ CloudOpsUnmarshalFails(req.body) THEN {}
           ELSE CloudOpsAccountNames(req.body)
      [] handler = "handleCachePost" ->
           IF req.body.readErr \/ req.body.kind = "junk" THEN {}
           ELSE IF UnmarshalAccountStruct(req.body.json).err THEN {}
           ELSE {AccountName(UnmarshalAccountStruct(req.body.json))} \ {""}
      [] handler = "artifactsPut" ->
           IF req.body.readErr THEN {}
           ELSE {getArtifactAccountName(req.body).name} \ {""}
      [] OTHER -> {}

\* the route map the handler looks its accounts up in
RelevantRoutes ==
    IF handler = "artifactsPut" THEN artifactAccountRoutes
    ELSE cloudAccountRoutes

\* C4: a request that names accounts (in its path, query or body), none of
\* which has an entry in the route map its handler uses, is answered 503
\* and no request goes to any backend.
C4_UnroutableAccountIs503 ==
    (/\ Handled
     /\ NamedAccounts # {}
     /\ NamedAccounts \cap DOMAIN RelevantRoutes = {}) =>
        /\ hpc = "done"
        /\ response.status = 503
        /\ NoBackendRequest

\* PUT /artifacts/fetch names x, which has a cloud route but no artifact
\* route
C4_Witness ==
    /\ hpc = "done"
    /\ handler = "artifactsPut"
    /\ NamedAccounts = {"x"}
    /\ "x" \in DOMAIN cloudAccountRoutes
    /\ "g" \in DOMAIN artifactAccountRoutes
    /\ response.status = 503
    /\ NoBackendRequest

\* C5: a request with a mutating method (POST, PUT, PATCH, DELETE, CONNECT,
\* OPTIONS, TRACE) that none of the specific routes takes goes to
\* failAndLog, is answered 503, and no request goes to any backend.
C5_MutatingCatchAllIs503 ==
    (/\ hpc # "idle"
     /\ req.method \in MutatingMethods
     /\ \A i \in SpecificRoutes : ~RouteMatches(routes[i], req)) =>
        /\ handler = "failAndLog"
        /\ NoBackendRequest
        /\ hpc = "done" => response.status = 503

\* DELETE /credentials/x, x having a route
C5_Witness ==
    /\ hpc = "done"
    /\ req.method = "DELETE"
    /\ req.path = <<"credentials", "x">>
    /\ "x" \in DOMAIN cloudAccountRoutes
    /\ response.status = 503
    /\ NoBackendRequest

\* a contributor succeeded: no transport error, a 2xx status and a body of
\* the shape the mode decodes
Succeeded(mode, reply) ==
    /\ ~reply.err
    /\ reply.code \in 200..299
    /\ reply.body.kind = (IF mode = "map" THEN "object" ELSE "array")

\* a feature flag as a client decodes it from the response: a member that
\* is absent has the zero value
DecodedFlag(obj) ==
    Flag(IF "name" \in DOMAIN obj.f THEN obj.f["name"].v ELSE "",
         "enabled" \in DOMAIN obj.f /\ obj.f["enabled"].v = "true")

\* the items of the contributors that succeeded, in completion order
RECURSIVE GoodItems(_)
GoodItems(arr) ==
    IF arr = <<>> THEN <<>>
    ELSE (IF Succeeded("list", Head(arr).reply) THEN Head(arr).reply.body.items
          ELSE <<>>) \o GoodItems(Tail(arr))

\* the positions in arrivals of the contributors that succeeded
Good(mode) == { n \in DOMAIN arrivals : Succeeded(mode, arrivals[n].reply) }

\* C8: in the list, map and feature-flag modes the response is 200 whatever
\* contributors failed, and its body is the merge of the contributors that
\* succeeded: the concatenation of their lists in completion order (with a
\* dedup key, items of theirs only); the union of their maps, the later
\* one winning a shared key; one flag for each name of theirs, enabled iff
\* one of them enables it.
C8_FailuresOnlyExclude ==
    (hpc = "done" /\ acc.mode \in {"list", "map", "features"}) =>
        /\ response.status = 200
        /\ (acc.mode = "list" /\ acc.key = "") =>
              response.body = ArrayBody(GoodItems(arrivals))
        /\ (acc.mode = "list" /\ acc.key # "") =>
              /\ response.body.kind = "array"
              /\ Range(response.body.items) \subseteq Range(GoodItems(arrivals))
        /\ acc.mode = "map" =>
              /\ response.body.kind = "object"
              /\ DOMAIN response.body.fields =
                    UNION { DOMAIN arrivals[n].reply.body.fields : n \in Good("map") }
              /\ \A k \in DOMAIN response.body.fields :
                    \E n \in Good("map") :
                        /\ k \in DOMAIN arrivals[n].reply.body.fields
                        /\ response.body.fields[k] = arrivals[n].reply.body.fields[k]
                        /\ \A m \in Good("map") :
                              k \in DOMAIN arrivals[m].reply.body.fields => m <= n
        /\ acc.mode = "features" =>
              LET flags == UNION { Range(arrivals[n].reply.body.items) :
                                     n \in Good("features") }
                  names == { f.Name : f \in flags }
              IN /\ response.body.kind = "array"
                 /\ Len(response.body.items) = Cardinality(names)
                 /\ { DecodedFlag(response.body.items[i]) :
                         i \in DOMAIN response.body.items } =
                       { Flag(name, Flag(name, TRUE) \in flags) : name \in names }

\* three backends were asked for a map: one answered 500 with a map in the
\* body, one could not be reached, one answered
C8_Witness ==
    /\ hpc = "done"
    /\ acc.mode = "map"
    /\ Len(arrivals) = 3
    /\ arrivals[1].reply = Reply(200, ObjectBody(M2("k1", JStr("q"), "k2", JStr("r"))))
    /\ arrivals[2].reply = Reply(500, ObjectBody(M1("k1", JStr("e"))))
    /\ arrivals[3].reply = TransportError
    /\ response = Response(200, ObjectBody(M2("k1", JStr("q"), "k2", JStr("r"))))

\* C9: in every fan-out mode nothing is written to the client before every
\* contacted backend has reported its result.
C9_ResponseAfterAllReported ==
    (acc.mode # "none" /\ response # NoResponse) =>
        /\ \A u \in DOMAIN children : children[u].pc = "done"
        /\ Len(arrivals) = Cardinality(DOMAIN children)

\* a broadcast to three backends has been answered
C9_Witness ==
    /\ acc.mode = "singleton"
    /\ Cardinality(DOMAIN children) = 3
    /\ response.status = 200
    /\ \A u \in DOMAIN children : children[u].pc = "done"

\* the dedup key of an item: its string value under the key, "" if the item
\* is no object, has no such member, or the member is no string
StringKey(item, k) ==
    IF item.t = "object" /\ k \in DOMAIN item.f /\ item.f[k].t = "string"
    THEN item.f[k].v
    ELSE ""

\* C10: with a dedup key the merged list holds, for every completion order,
\* exactly one item for each distinct non-empty string key value among the
\* items of the contributors that succeeded, namely the first one seen, and
\* no item without such a key; so a contributor answering the same list
\* again does not change the keys of the result.
C10_OneItemPerKey ==
    (hpc = "done" /\ acc.mode = "list" /\ acc.key # "") =>
        LET items == response.body.items
            good == GoodItems(arrivals)
        IN /\ \A i \in DOMAIN items : StringKey(items[i], acc.key) # ""
           /\ \A i, j \in DOMAIN items :
                 i # j => StringKey(items[i], acc.key) # StringKey(items[j], acc.key)
           /\ { StringKey(items[i], acc.key) : i \in DOMAIN items } =
                 { StringKey(good[n], acc.key) : n \in DOMAIN good } \ {""}
           /\ \A i \in DOMAIN items :
                 \E n \in DOMAIN good :
                     /\ items[i] = good[n]
                     /\ \A m \in 1..(n - 1) :
                           StringKey(good[m], acc.key) # StringKey(good[n], acc.key)

\* two backends answered the same list and a third another one with a key
\* in common
C10_Witness ==
    /\ hpc = "done"
    /\ acc.mode = "list"
    /\ acc.key = "name"
    /\ Len(arrivals) = 3
    /\ arrivals[1].reply = arrivals[2].reply
    /\ Succeeded("list", arrivals[1].reply)
    /\ arrivals[3].reply = Reply(200, ArrayBody(<<IA1, IB>>))
    /\ response.body.items = <<IA2, IB>>

\* the flags in the replies of the backends that succeeded, whatever the
\* order in which they completed
SuccessfulFlags ==
    UNION { Range(children[u].reply.body.items) :
              u \in { b \in DOMAIN children :
                        Succeeded("features", children[b].reply) } }

\* C11: the feature-flag response holds each distinct flag name of the
\* successful contributors exactly once, enabled iff some successful
\* contributor enables it; the set of (name, enabled) pairs depends on the
\* replies only, not on the order in which they completed.
C11_FeatureFlagsOr ==
    (hpc = "done" /\ acc.mode = "features") =>
        LET items == response.body.items
            names == { f.Name : f \in SuccessfulFlags }
        IN /\ \A i, j \in DOMAIN items :
                 i # j => DecodedFlag(items[i]).Name # DecodedFlag(items[j]).Name
           /\ { DecodedFlag(items[i]) : i \in DOMAIN items } =
                 { Flag(name, \E f \in SuccessfulFlags :
                                  f.Name = name /\ f.Enabled) : name \in names }

\* f1 was enabled by the first contributor to complete and disabled by the
\* last one; a third one failed with f2 enabled in its body
C11_Witness ==
    /\ hpc = "done"
    /\ acc.mode = "features"
    /\ Len(arrivals) = 3
    /\ arrivals[1].reply = Reply(200, ArrayBody(<<Flag("f1", TRUE), Flag("f2", FALSE)>>))
    /\ arrivals[2].reply = Reply(404, ArrayBody(<<Flag("f2", TRUE)>>))
    /\ arrivals[3].reply = Reply(200, ArrayBody(<<Flag("f1", FALSE)>>))
    /\ { DecodedFlag(response.body.items[i]) : i \in DOMAIN response.body.items }
          = { Flag("f1", TRUE), Flag("f2", FALSE) }

\* C12: the keys of the merged map are the union of the keys of the
\* contributors that succeeded, each key carries the value of the last
\* contributor to complete that has it, and contributors that all answered
\* the same map yield that map.
C12_MapLastWriterWins ==
    (hpc = "done" /\ acc.mode = "map") =>
        LET merged == response.body.fields
            maps == [n \in Good("map") |-> arrivals[n].reply.body.fields]
        IN /\ DOMAIN merged = UNION { DOMAIN maps[n] : n \in Good("map") }
           /\ \A k \in DOMAIN merged :
                 LET last == CHOOSE n \in Good("map") :
                                /\ k \in DOMAIN maps[n]
                                /\ \A m \in Good("map") :
                                      k \in DOMAIN maps[m] => m <= n
                 IN merged[k] = maps[last][k]
           /\ \A n \in Good("map") :
                 (\A m \in Good("map") : maps[m] = maps[n]) => merged = maps[n]

\* the first contributor set k1 and k2, the second failed, the last set k1
\* again
C12_Witness ==
    /\ hpc = "done"
    /\ acc.mode = "map"
    /\ Len(arrivals) = 3
    /\ arrivals[1].reply = Reply(200, ObjectBody(M2("k1", JStr("q"), "k2", JStr("r"))))
    /\ arrivals[2].reply = Reply(200, JunkBody)
    /\ arrivals[3].reply = Reply(200, ObjectBody(M1("k1", JStr("p"))))
    /\ response.body.fields = M2("k1", JStr("p"), "k2", JStr("r"))

\* the positions in arrivals of the contributors that answered 2xx with a
\* body that is not empty
Answered ==
    { n \in DOMAIN arrivals :
        /\ ~arrivals[n].reply.err
        /\ arrivals[n].reply.code \in 200..299
        /\ arrivals[n].reply.body # EmptyText }

\* C13: in a broadcast, if some contributor answers 2xx with a non-empty
\* body, the client gets 200 with the body of the first of them to
\* complete, wherever the failures and the 404s fall in the order.
C13_FirstAnswerWins ==
    (hpc = "done" /\ acc.mode = "singleton" /\ Answered # {}) =>
        LET first == CHOOSE n \in Answered : \A m \in Answered : n <= m
        IN response = Response(200, arrivals[first].reply.body)

\* a 404 completed first, then two answers; the body is the first answer's
C13_Witness ==
    /\ hpc = "done"
    /\ acc.mode = "singleton"
    /\ Len(arrivals) = 3
    /\ arrivals[1].reply = Reply(404, Text("not found"))
    /\ arrivals[2].reply = Reply(200, Text("t2"))
    /\ arrivals[3].reply = TransportError
    /\ response = Response(200, Text("t2"))

\* C14: a broadcast is answered 404 whenever no contributor answered 2xx
\* with a non-empty body: all failed, all answered 404 or an empty body, any
\* mix of these in any order, or there is no backend to ask.
C14_NoAnswerIs404 ==
    (hpc = "done" /\ acc.mode = "singleton" /\ Answered = {}) =>
        response.status = 404

\* C15: with no backend to ask, the list, map and feature-flag modes answer
\* 200 with an empty array, an empty object and an empty array; the list
\* mode answers 200 with an empty array when every contributor answered 404.
C15_EmptyResults ==
    /\ (hpc = "done" /\ acc.mode \in {"list", "map", "features"}
          /\ children = EmptyMap) =>
          response = Response(200, IF acc.mode = "map" THEN ObjectBody(EmptyMap)
                                   ELSE ArrayBody(<<>>))
    /\ (hpc = "done" /\ acc.mode = "list" /\ children # EmptyMap
          /\ \A n \in DOMAIN arrivals :
                ~arrivals[n].reply.err /\ arrivals[n].reply.code = 404) =>
          response = Response(200, ArrayBody(<<>>))

\* three backends were asked for a list and all answered 404
C15_Witness ==
    /\ hpc = "done"
    /\ acc.mode = "list"
    /\ Len(arrivals) = 3
    /\ \A n \in DOMAIN arrivals : arrivals[n].reply = Reply(404, ArrayBody(<<IA1>>))
    /\ response = Response(200, ArrayBody(<<>>))

\* every required check that has been run passed its most recent run
RequiredChecksPassed ==
    \A i \in DOMAIN Checks :
        (~Checks[i].ObserveOnly /\ Checks[i].Service \in DOMAIN lastRun) =>
            lastRun[Checks[i].Service]

\* C16: /health is answered 200 if and only if the most recent run of every
\* required (not observe-only) check succeeded, and 418 otherwise.
C16_HealthIffRequiredChecksPass ==
    [][healthHTTPHandler =>
          /\ response'.status \in {200, 418}
          /\ response'.status = 200 <=> RequiredChecksPassed]_vars

\* C17: while the check of the ClouddriverManager is failing, that is until
\* the first refresh has completed, /health is answered 418.
C17_NotReadyBeforeFirstRefresh ==
    [][(healthHTTPHandler /\ health # NoError) => response'.status = 418]_vars

\* both polls of the first refresh have completed: its updateAllAccounts
\* has returned
FirstRefreshCompleted == trackerPc \notin {"start", "firstSync"}

\* C18: ClouddriverManager.Check returns an error at every moment before the
\* first refresh has completed and nil at every moment after it.
C18_CheckFailsExactlyBeforeFirstRefresh ==
    \A err \in ClouddriverManagerCheck :
        (err = NoError) <=> FirstRefreshCompleted

\* C19: when a check has been run, the stored indicator of that check has
\* Healthy equal to whether the run returned no error.
C19_StoredHealthyIsRunOutcome ==
    [][(runCheckerCall \/ RunCheckersIteration) =>
          \A i \in DOMAIN Checks' :
              LET s == Checks'[i].Service
              IN (/\ s \in DOMAIN lastRun'
                  /\ (s \notin DOMAIN lastRun \/ lastRun[s] # lastRun'[s])) =>
                     Checks'[i].Healthy = lastRun'[s]]_vars

\* C20: once started, RunCheckers goes on running checks until StopCheckers
\* is called: it does not return before.
C20_RunsUntilStopped ==
    checkersPc = "returned" => stopped

\* C21: a request sent to a backend has an Authorization header only when
\* the backend's token is not empty, and then its only value is "Bearer "
\* followed by that backend's token; what the client sent as Authorization
\* does not reach a backend.
C21_AuthorizationOnlyFromToken ==
    \A c \in upstream :
        /\ c.token # "" => /\ "Authorization" \in DOMAIN c.header
                           /\ c.header["Authorization"] = <<Bearer(c.token)>>
        /\ c.token = "" => "Authorization" \notin DOMAIN c.header

\* the header keys the code sets itself on the request c after the copy
SetByClient(c) ==
    (IF c.ctx = "req.Context()" THEN {"Accept"} ELSE {})
    \cup (IF c.token # "" THEN {"Authorization"} ELSE {})

\* no inbound value of an ignored header is in the request sent to a backend
IgnoredNotCopied(c) ==
    \A k \in ignoredHeaders :
        k \in DOMAIN c.header =>
            /\ k = "Content-Type"
            /\ c.header[k] = <<"application/json; charset=UTF-8">>

\* C22 as stated: no inbound value of the five ignored headers is copied,
\* and every other inbound header is forwarded with all of its values.
C22_AllOtherHeadersForwarded ==
    \A c \in upstream :
        /\ IgnoredNotCopied(c)
        /\ \A k \in DOMAIN req.header \ ignoredHeaders :
              k \in DOMAIN c.header /\ c.header[k] = req.header[k]

\* C22: no inbound value of the five ignored headers is copied, and every
\* other inbound header that the code does not set itself (Accept, and
\* Authorization for a backend with a token) is forwarded with all of its
\* values in their order.
C22_OtherHeadersForwardedUnlessSet ==
    \A c \in upstream :
        /\ IgnoredNotCopied(c)
        /\ \A k \in (DOMAIN req.header \ ignoredHeaders) \ SetByClient(c) :
              k \in DOMAIN c.header /\ c.header[k] = req.header[k]
        /\ \A k \in SetByClient(c) : Len(c.header[k]) = 1

\* a request with ignored headers and a two-valued X-Header was sent on
C22_Witness ==
    /\ req.method = "POST"
    /\ DOMAIN req.header = ignoredHeaders \cup {"X-Header"}
    /\ \E c \in upstream :
          /\ c.header["X-Header"] = <<"this", "that">>
          /\ c.method = "POST"

\* C24: every call to a backend made for an inbound request runs under a
\* context derived from that request's context, so that it is cancelled
\* when the client cancels.
C24_CallsBoundToRequest ==
    \A c \in upstream : c.ctx = "req.Context()"

\* s without the slashes it ends with, and without those it starts with
RECURSIVE TrimRight(_)
TrimRight(str) ==
    IF str # <<>> /\ str[Len(str)] = "/"
    THEN TrimRight(SubSeq(str, 1, Len(str) - 1)) ELSE str

RECURSIVE TrimLeft(_)
TrimLeft(str) ==
    IF str # <<>> /\ str[1] = "/" THEN TrimLeft(Tail(str)) ELSE str

\* C23: for every base and every path combineURL returns the base and the
\* path joined by exactly one "/".
C23_ExactlyOneSlash ==
    (applied.fn = "combineURL" /\ applied.done) =>
        /\ ~applied.result.panic
        /\ applied.result.val =
              TrimRight(applied.base) \o <<"/">> \o TrimLeft(applied.uri)

\* no updateAllAccounts is running: the last one has returned from wg.Wait
NoRefreshInFlight ==
    /\ refresherPc = "idle"
    /\ wg = 0

\* C25: the first refresh is started by the tracker at its start, before
\* any timer tick; every later one is started by a tick of the timer, which
\* is armed only when the previous refresh has completed; so no refresh
\* starts while another is in flight.
C25_OneRefreshAtATime ==
    [][/\ timer' = "armed" => refresherPc' = "idle" /\ wg' = 0
       /\ refreshNo' # refreshNo =>
             /\ NoRefreshInFlight
             /\ IF refreshNo = 0
                THEN trackerPc = "start" /\ timer = "stopped"
                ELSE trackerPc = "loop" /\ timer = "armed" /\ timer' = "stopped"]_vars

\* the second refresh, started by the timer, is in flight
C25_Witness ==
    /\ refreshNo = 2
    /\ refresherPc = "wait"
    /\ wg = 2
    /\ timer = "stopped"


(***************************************************************************)
(* Properties of the discovery events.                                     *)
(***************************************************************************)
\* the events handled so far that are about the backend (agent, name) and
\* that handleUpdate acts on
EventsFor(agent, name) ==
    SelectSeq(events, LAMBDA e : /\ e.AgentName = agent
                                 /\ e.Name = name
                                 /\ e.Operation \in {"update", "delete"})

LastEventIsUpdate(agent, name) ==
    LET es == EventsFor(agent, name)
    IN es # <<>> /\ es[Len(es)].Operation = "update"

\* the registry holds a discovered entry of the backend (agent, name)
InRegistry(agent, name) ==
    \E k \in DOMAIN state : /\ state[k].Source = "controller"
                            /\ state[k].AgentName = agent
                            /\ state[k].Name = name

\* every discovered entry of the registry has exactly one check, bound to
\* the entry's key, and there is no other check of a discovered backend
ChecksFollowRegistry ==
    /\ \A k \in DOMAIN state :
          state[k].Source = "controller" =>
             /\ Cardinality({i \in DOMAIN Checks :
                                Checks[i].Service = "clouddriver " \o k}) = 1
             /\ \A i \in DOMAIN Checks :
                   Checks[i].Service = "clouddriver " \o k =>
                      Checks[i].checker = k
    /\ \A e \in DiscoveryEvents :
          UpdateKey(e) \notin DOMAIN state =>
             \A i \in DOMAIN Checks :
                Checks[i].Service # "clouddriver " \o UpdateKey(e)

\* C26: after any sequence of discovery events a discovered backend
\* (agentName, name) is in the registry exactly when the last event for it
\* was an update, and the check list holds exactly one check for every
\* discovered backend of the registry and none for a removed one.
C26_RegistryFollowsLastEvent ==
    trackerPc = "loop" =>
       /\ \A id \in DiscoveredIdentities :
             InRegistry(id[1], id[2]) <=> LastEventIsUpdate(id[1], id[2])
       /\ ChecksFollowRegistry

\* C27: no update or delete event, whatever agent name and name it carries,
\* removes or alters a registry entry that came from the configuration.
C27_ConfigBackendsUntouched ==
    [][\A k \in DOMAIN state :
          state[k].Source = "config" =>
             /\ k \in DOMAIN state'
             /\ state'[k] = state[k]]_vars

\* a delete and an update carrying the agent name "config" and the name of
\* a configured clouddriver have been handled, the entry is there
C27_Witness ==
    /\ trackerPc = "loop"
    /\ \E i, j \in DOMAIN events :
          /\ events[i].AgentName = "config" /\ events[i].Name = "a"
          /\ events[i].Operation = "delete"
          /\ events[j].AgentName = "config" /\ events[j].Name = "a"
          /\ events[j].Operation = "update"
    /\ "config:a" \in DOMAIN state
    /\ state["config:a"].Source = "config"


(***************************************************************************)
(* Properties of the polls with respect to disableArtifactAccounts.        *)
(***************************************************************************)
\* what a poll is given for the registry entry k
RefOf(k) == URLAndPriority(state[k].URL, state[k].Priority, state[k].token)

ArtifactEligible == {k \in DOMAIN state : ~state[k].DisableArtifactAccounts}

\* C28: the artifact poll is given exactly the backends without
\* disableArtifactAccounts (getClouddriverURLs(true)), the cloud poll is
\* given all backends (getClouddriverURLs(false)), and the artifact routes
\* a poll publishes have no target other than the backends without the
\* flag.  The registry does not change while a poll holds the lock.
C28_FlaggedBackendsOnlyPolledForCloud ==
    [][/\ mutex' = "artifact" =>
             /\ DOMAIN worker'["artifact"].cds = ArtifactEligible'
             /\ \A k \in ArtifactEligible' :
                   worker'["artifact"].cds[k] = RefOf(k)'
       /\ mutex' = "cloud" =>
             /\ DOMAIN worker'["cloud"].cds = DOMAIN state'
             /\ \A k \in DOMAIN state' : worker'["cloud"].cds[k] = RefOf(k)'
       /\ artifactAccountRoutes' # artifactAccountRoutes =>
             \A name \in DOMAIN artifactAccountRoutes' :
                \E k \in ArtifactEligible :
                   artifactAccountRoutes'[name] = RefOf(k)]_vars

\* both polls have published routes; the registry has a backend with the
\* flag that is the target of a cloud route and of no artifact route
C28_Witness ==
    /\ artifactAccountRoutes # EmptyMap
    /\ \E k \in DOMAIN state :
          /\ state[k].DisableArtifactAccounts
          /\ \E name \in DOMAIN cloudAccountRoutes :
                cloudAccountRoutes[name] = RefOf(k)
          /\ \A name \in DOMAIN artifactAccountRoutes :
                artifactAccountRoutes[name] # RefOf(k)


(***************************************************************************)
(* Properties of the requests routed by their body.                        *)
(***************************************************************************)
BodyRouted == handler \in {"cloudOpsPost", "handleCachePost"}

\* the handler has decided: it has sent the request on or has answered
BodyRouteDecided == BodyRouted /\ hpc \in {"upstream", "done"}

\* the body was read and decoded
BodyDecoded ==
    /\ ~req.body.readErr
    /\ IF handler = "cloudOpsPost"
       THEN ~CloudOpsUnmarshalFails(req.body)
       ELSE /\ req.body.kind # "junk"
            /\ ~UnmarshalAccountStruct(req.body.json).err

\* the JSON objects of the body that may name an account: the values of
\* the elements of the list (cloudOpsPost), the body itself (handleCachePost)
BodyElements ==
    IF ~BodyDecoded THEN {}
    ELSE IF handler = "cloudOpsPost"
    THEN IF req.body.json.t # "array" THEN {}
         ELSE LET list == req.body.json.items
              IN UNION { { list[i].f[k] : k \in DOMAIN list[i].f } :
                         i \in { j \in DOMAIN list : list[j].t = "object" } }
    ELSE {req.body.json}

FieldValue(e, name) ==
    IF e.t = "object" THEN StringField(e, name).v ELSE ""

\* the account an element names: its account, else its credentials
ResolvedName(e) ==
    IF FieldValue(e, "account") # "" THEN FieldValue(e, "account")
    ELSE FieldValue(e, "credentials")

RoutableNames ==
    { ResolvedName(e) : e \in BodyElements } \cap DOMAIN cloudAccountRoutes

\* C29: a body-routed request whose body names at least one routable
\* account (the account of an element, else its credentials) causes exactly
\* one upstream call, with the method, the path and the body of the request
\* unchanged, to the cloud route of one of the routable accounts named; so
\* when all of them have the same route, that backend is the target.
C29_OneCallWithOriginalBody ==
    (BodyRouteDecided /\ RoutableNames # {}) =>
       /\ Cardinality(upstream) = 1
       /\ \A c \in upstream :
             /\ c.body = req.body
             /\ c.method = req.method
             /\ c.path = req.path
             /\ \E n \in RoutableNames :
                   /\ c.url = cloudAccountRoutes[n].URL
                   /\ c.token = cloudAccountRoutes[n].token

\* a body naming x and y, both routed to the same backend, has been sent
\* to that backend and answered
C29_Witness ==
    /\ handler = "cloudOpsPost"
    /\ hpc = "done"
    /\ RoutableNames = {"x", "y"}
    /\ cloudAccountRoutes["x"] = cloudAccountRoutes["y"]
    /\ \E c \in upstream : c.url = cloudAccountRoutes["x"].URL
    /\ response.status = 200

C31_ErrorReplyForwardedAsForGet ==
    [][(/\ hpc = "upstream"
        /\ handler \in {"cloudOpsPost", "handleCachePost", "artifactsPut"}
        /\ hpc' = "done"
        /\ ~StatusCodeOK(response'.status))
       => \E reply \in TargetReplies :
             /\ reply.err \/ ~StatusCodeOK(reply.code)
             /\ response' = fetchFromResponse(reply)]_vars


(***************************************************************************)
(* Properties of the backends a request is sent to.                        *)
(***************************************************************************)
\* the URLs of the backends at least one route of either map points at
RoutedURLs ==
    { v.URL : v \in Range(cloudAccountRoutes) \cup Range(artifactAccountRoutes) }

FanOutHandlers == {"fetchList", "fetchUniqueList", "fetchFeatureList", "broadcast"}

\* C32: the handlers that ask getHealthyClouddriverURLs send one request to
\* every backend that at least one route of the cloud or of the artifact
\* map points at, one per backend however many routes point at it, and the
\* fallback proxy sends its request to one of them; a backend no route
\* points at receives no request.
C32_OnlyRoutedBackendsAsked ==
    /\ (handler \in FanOutHandlers /\ hpc \in {"combine", "done"}) =>
          /\ { c.url : c \in upstream } = RoutedURLs
          /\ Cardinality(upstream) = Cardinality(RoutedURLs)
          /\ acc.count = Cardinality(RoutedURLs)
    /\ (handler = "redirect" /\ hpc \in {"upstream", "done"} /\ ~req.body.readErr) =>
          /\ { c.url : c \in upstream } \subseteq RoutedURLs
          /\ Cardinality(upstream) = IF RoutedURLs = {} THEN 0 ELSE 1

\* a fan-out has asked the one backend that three routes point at, with
\* two different tokens, and two backends of the registry were not asked
C32_Witness ==
    /\ handler \in FanOutHandlers
    /\ hpc = "done"
    /\ Cardinality(DOMAIN cloudAccountRoutes) = 2
    /\ Cardinality(Range(cloudAccountRoutes)) = 2
    /\ { c.url : c \in upstream } = {"http://a", "http://c"}
    /\ \E k \in DOMAIN state : state[k].URL = "http://b"


(***************************************************************************)
(* Properties of the routes after a clouddriver has left the registry.     *)
(***************************************************************************)
\* the events handled after event i that put its clouddriver back
PutBackAfter(i) ==
    { j \in DOMAIN events : /\ j > i
                            /\ UpdateKey(events[j]) = UpdateKey(events[i])
                            /\ events[j].Operation = "update" }

\* the URLs the update events handled before event i gave its clouddriver
URLsBefore(i) ==
    { events[j].URL : j \in { n \in DOMAIN events :
                                /\ n < i
                                /\ UpdateKey(events[n]) = UpdateKey(events[i])
                                /\ events[n].Operation = "update" } }

\* no route of either map and no element of a result of
\* getHealthyClouddriverURLs has the URL u
NotReferredTo(u) ==
    /\ \A kind \in Kinds : \A name \in DOMAIN Routes(kind) :
          Routes(kind)[name].URL # u
    /\ \A cds \in getHealthyClouddriverURLs : \A v \in cds : v.URL # u

\* a delete has been handled, its clouddriver has not been put back, and
\* both maps were published by a refresh started after the delete
DeletedAndRefreshed(i) ==
    /\ events[i].Operation = "delete"
    /\ PutBackAfter(i) = {}
    /\ \A kind \in Kinds : gen[kind].routes > events[i].at

\* C33: a poll publishes only routes to the backends it listed, which are
\* the backends of the registry at that moment; so once a discovered
\* backend has been deleted and the maps are those of a refresh started
\* after the delete, no route and no result of getHealthyClouddriverURLs
\* refers to it.
C33_RoutesPointIntoRegistry ==
    [][/\ \A kind \in Kinds :
             gen'[kind].routes # gen[kind].routes =>
                \A name \in DOMAIN Routes(kind)' :
                   /\ Routes(kind)'[name] \in Range(worker[kind].cds)
                   /\ \E k \in DOMAIN state : Routes(kind)'[name] = RefOf(k)
       /\ \A i \in DOMAIN events' :
             DeletedAndRefreshed(i)' =>
                \A u \in URLsBefore(i)' : NotReferredTo(u)']_vars

\* the discovered clouddriver had routes, was deleted, and the second
\* refresh, started after the delete, has published both maps, not empty
C33_Witness ==
    /\ \E i \in DOMAIN events :
          /\ DeletedAndRefreshed(i)
          /\ URLsBefore(i) = {"http://c"}
    /\ refresherPc = "idle"
    /\ cloudAccountRoutes # EmptyMap
    /\ artifactAccountRoutes # EmptyMap


(***************************************************************************)
(* Properties of the paginated cache.                                      *)
(***************************************************************************)
\* C34: every CacheRequest receives exactly one reply on its reply channel,
\* whether it finds a filled entry, starts the fetch or joins a running
\* one, and the cache then closes the channel: RunCache does not stop, no
\* client has more than one reply, a client that was answered has a closed
\* channel, and when RunCache has nothing left to do every client that
\* sent its request was answered.
C34_OneReplyThenClosed ==
    /\ cachePc = "select"
    /\ \A c \in DOMAIN clients :
          /\ Len(clients[c].received) <= 1
          /\ clients[c].pc = "done" =>
                Len(clients[c].received) = 1 /\ clients[c].closed
          /\ (fetches = {} /\ clients[c].pc # "start") => clients[c].pc = "done"

\* the parts of C34 that do not depend on the channel being closed nor on
\* the page numbers: no client has more than one reply, and a client that
\* is waiting is in the waiting list of the entry of its key
AtMostOneReply ==
    \A c \in DOMAIN clients :
       /\ Len(clients[c].received) <= 1
       /\ clients[c].pc = "done" <=> Len(clients[c].received) = 1
       /\ (clients[c].pc = "waiting" /\ cachePc = "select") =>
             LET k == CacheKey(clients[c].request.Username,
                               clients[c].request.QueryURL)
             IN /\ k \in DOMAIN cache
                /\ \E i \in DOMAIN cache[k].waitingClients :
                      cache[k].waitingClients[i] = c

\* C35: a request for (username, queryURL) is answered only from an entry
\* created for that pair, and waits only for the fetch of such an entry.
C35_EntriesPerUserAndQuery ==
    /\ \A c \in DOMAIN clients :
          \A i \in DOMAIN clients[c].received :
             clients[c].received[i].entry =
                << clients[c].request.Username, clients[c].request.QueryURL >>
    /\ \A k \in DOMAIN cache :
          \A i \in DOMAIN cache[k].waitingClients :
             LET c == cache[k].waitingClients[i]
             IN cache[k].createdFor =
                   << clients[c].request.Username, clients[c].request.QueryURL >>


(***************************************************************************)
(* SpecLocks: the two mutexes.  handleUpdate holds the manager's lock for  *)
(* its whole body and calls RemoveCheck and AddCheck, which take the       *)
(* health checker's lock; runChecker calls Check, which for the manager's  *)
(* own check takes the manager's lock; the /health handler takes the       *)
(* health checker's lock.  Here every acquisition is a step of its own.    *)
(***************************************************************************)
\* who holds h's lock while runChecker calls Check, were it held
hmutexKeptWhileChecking == "runChecker"

\* RunCheckers: h.Unlock() comes before h.runChecker(h.Checks[nextIndex])
hmutexWhileChecking == "free"

\* handleUpdate: m.Lock()
handleUpdateLock ==
    /\ trackerPc = "handleUpdate"
    /\ mutex = "free"
    /\ mutex' = "handleUpdate"
    /\ trackerPc' = "handleUpdateLocked"
    /\ UNCHANGED << state, published, health, Checks, pendingUpdate, timer, wg,
                    refresherPc, worker, refreshNo, nUpdates, gen,
                    lastAdvertised, replies, observed >>
    /\ UNCHANGED << httpVars, checkerVars, applied, events, cacheVars >>

\* handleUpdate, holding m: h.Lock() of the RemoveCheck or AddCheck it calls
\* next, or the return of an update that is neither a delete nor an update
handleUpdateHealthLock ==
    /\ trackerPc \in {"handleUpdateLocked", "handleUpdateRemoved"}
    /\ IF pendingUpdate.Operation \in {"delete", "update"}
       THEN /\ hmutex = "free"
            /\ hmutex' = "handleUpdate"
            /\ trackerPc' = IF trackerPc = "handleUpdateLocked"
                            THEN "handleUpdateFirst" ELSE "handleUpdateSecond"
            /\ UNCHANGED << mutex, pendingUpdate, events >>
       ELSE /\ mutex' = "free"
            /\ trackerPc' = "loop"
            /\ pendingUpdate' = NoUpdate
            /\ events' = Append(events, pendingUpdate @@ [at |-> refreshNo])
            /\ UNCHANGED hmutex
    /\ UNCHANGED << state, published, health, Checks, timer, wg, refresherPc,
                    worker, refreshNo, nUpdates, gen, lastAdvertised, replies,
                    observed >>
    /\ UNCHANGED << httpVars, run, Healthy, nextIndex, checkersCount,
                    checkersPc, lastRun, stopped, checking, applied,
                    cacheVars >>

\* handleUpdate, holding m and h: the body of RemoveCheck or AddCheck and its
\* h.Unlock(), with the statements of handleUpdate around it, up to the next
\* h.Lock() or to the deferred m.Unlock()
handleUpdateHealth ==
    /\ trackerPc \in {"handleUpdateFirst", "handleUpdateSecond"}
    /\ hmutex = "handleUpdate"
    /\ hmutex' = "free"
    /\ LET update == pendingUpdate
           k == UpdateKey(update)
           tracked == makeTrackedClouddriverFromUpdate(update)
           returns == /\ mutex' = "free"
                      /\ trackerPc' = "loop"
                      /\ pendingUpdate' = NoUpdate
                      /\ events' = Append(events,
                                          pendingUpdate @@ [at |-> refreshNo])
       IN IF trackerPc = "handleUpdateSecond"
          THEN /\ Checks' = AddCheck(Checks, "clouddriver " \o k, TRUE, k)
               /\ state' = MapPut(state, k,
                             [tracked EXCEPT !.LastSuccessfulContact =
                                               state[k].LastSuccessfulContact])
               /\ returns
          ELSE IF update.Operation = "delete"
          THEN /\ state' = MapDelete(state, k)
               /\ Checks' = RemoveCheck(Checks, "clouddriver " \o k)
               /\ returns
          ELSE IF k \notin DOMAIN state
          THEN /\ state' = MapPut(state, k, tracked)
               /\ Checks' = AddCheck(Checks, "clouddriver " \o k, TRUE, k)
               /\ returns
          ELSE /\ Checks' = RemoveCheck(Checks, "clouddriver " \o k)
               /\ trackerPc' = "handleUpdateRemoved"
               /\ UNCHANGED << state, mutex, pendingUpdate, events >>
    /\ UNCHANGED << published, health, timer, wg, refresherPc, worker,
                    refreshNo, nUpdates, gen, lastAdvertised, replies,
                    observed >>
    /\ UNCHANGED << httpVars, run, Healthy, nextIndex, checkersCount,
                    checkersPc, lastRun, stopped, checking, applied,
                    cacheVars >>

\* h.runChecker(h.Checks[i]) is entered: the indicator is copied into the
\* parameter
runCheckerBegin ==
    /\ checking = NoIndicator
    /\ hmutexWhileChecking # "free" => hmutex = "free"
    /\ \E i \in DOMAIN Checks : checking' = Checks[i]
    /\ hmutex' = IF hmutexWhileChecking # "free" THEN hmutexWhileChecking
                 ELSE hmutex
    /\ UNCHANGED << Checks, run, Healthy, nextIndex, checkersCount, checkersPc,
                    lastRun, stopped, nonCheckerVars >>

\* runChecker: checker.checker.Check() and the rest.  The manager's Check
\* takes m.Lock() and releases it on return.
runCheckerEnd ==
    /\ checking # NoIndicator
    /\ checking.checker = "ClouddriverManager" => mutex = "free"
    /\ \E err \in CheckOutcomes(checking.checker) :
          lastRun' = MapPut(lastRun, checking.Service, err = NoError)
    /\ checking' = NoIndicator
    /\ hmutex' = IF hmutex = "runChecker" THEN "free" ELSE hmutex
    /\ UNCHANGED << Checks, run, Healthy, nextIndex, checkersCount, checkersPc,
                    stopped, nonCheckerVars >>

NextLocks ==
    \/ accountTrackerReceive
    \/ handleUpdateLock
    \/ handleUpdateHealthLock
    \/ handleUpdateHealth
    \/ runCheckerBegin
    \/ runCheckerEnd
    \/ RunCheckers
    \/ RunCheckersIteration
    \/ ServeHTTP(HealthRequests)
    \/ healthHTTPHandler

\* the manager with its discovered backend, one cloud account published
InitLocks ==
    /\ InitRemoval
    /\ artifactAccounts = <<>>

SpecLocks == InitLocks /\ [][NextLocks]_vars

\* A goroutine that can run is run, and a goroutine blocked in Lock gets the
\* lock once it stays free.
SpecLocksFair ==
    /\ SpecLocks
    /\ WF_vars(handleUpdateLock)
    /\ WF_vars(handleUpdateHealthLock)
    /\ WF_vars(handleUpdateHealth)
    /\ WF_vars(runCheckerEnd)
    /\ WF_vars(healthHTTPHandler)

CheckServices == {"a", "b", "c"}

\* h.AddCheck(service, observeOnly, HTTPChecker(url))
callAddCheck ==
    /\ hmutex = "free"
    /\ \E service \in CheckServices, observeOnly \in BOOLEAN :
          Checks' = AddCheck(Checks, service, observeOnly,
                             "http://" \o service \o "/health")
    /\ UNCHANGED << checkerVars, nonCheckerVars >>

\* h.RemoveCheck(service)
callRemoveCheck ==
    /\ hmutex = "free"
    /\ \E service \in CheckServices : Checks' = RemoveCheck(Checks, service)
    /\ UNCHANGED << checkerVars, nonCheckerVars >>

InitChecks ==
    /\ state = EmptyMap
    /\ cloudAccountRoutes = EmptyMap
    /\ cloudAccounts = <<>>
    /\ artifactAccountRoutes = EmptyMap
    /\ artifactAccounts = <<>>
    /\ health = NoError
    /\ mutex = "free"
    /\ Checks = <<>>
    /\ trackerPc = "loop"
    /\ pendingUpdate = NoUpdate
    /\ timer = "armed"
    /\ wg = 0
    /\ refresherPc = "idle"
    /\ worker = [k \in Kinds |-> IdleWorker]
    /\ HistoryInit
    /\ HTTPIdle
    /\ makeHealth
    /\ applied = NotApplied
    /\ NoCacheClients

NextChecks ==
    \/ callAddCheck
    \/ callRemoveCheck
    \/ RunCheckers
    \/ RunCheckersIteration
    \/ StopCheckers
    \/ runCheckerCall

SpecChecks == InitChecks /\ [][NextChecks]_vars

\* C38: the RunCheckers goroutine never panics: it neither divides by a
\* count of zero nor indexes a position the check list does not have,
\* whatever AddCheck and RemoveCheck calls run beside it.
C38_LoopNeverPanics == checkersPc # "panicked"


\* C37: in a fan-out, a backend's goroutine has delivered exactly one result
\* once it has ended and none before; while the combining loop still waits
\* for a result there is a goroutine that has yet to deliver one; and when
\* the response is written every goroutine has delivered and ended, the loop
\* having received one result per contacted backend.
C37_OneResultPerChild ==
    /\ \A u \in DOMAIN children :
          Cardinality({ i \in DOMAIN arrivals : arrivals[i].b = u }) =
              IF children[u].pc = "done" THEN 1 ELSE 0
    /\ (hpc = "combine" /\ acc.i < acc.count) =>
          \E u \in DOMAIN children : children[u].pc \in {"fetch", "send"}
    /\ (hpc = "done" /\ acc.mode # "none") =>
          /\ \A u \in DOMAIN children : children[u].pc = "done"
          /\ acc.i = Cardinality(DOMAIN children)
          /\ Len(arrivals) = Cardinality(DOMAIN children)

\* a fan-out of maps to two backends or more has been answered, one of its
\* goroutines having had a transport error and another a 200
C37_Witness ==
    /\ hpc = "done"
    /\ acc.mode = "map"
    /\ Cardinality(DOMAIN children) >= 2
    /\ \E i, j \in DOMAIN arrivals :
          /\ arrivals[i].reply = TransportError
          /\ arrivals[j].reply # TransportError
          /\ arrivals[j].reply.code = 200


(***************************************************************************)
(* SpecEmptyURL: the manager of SpecRemoval receives discovery updates,    *)
(* some of which carry an empty URL, and refreshes.  A panic in a          *)
(* goroutine that nothing recovers ends the process.                       *)
(***************************************************************************)
EmptyURLUpdates ==
    { DiscoveryEvent("agent", "c", "update", ""),
      DiscoveryEvent("agent", "d", "update", ""),
      DiscoveryEvent("agent", "d", "update", "http://d") }

\* case update := <-updateChan, for the updates of EmptyURLUpdates
receiveEmptyURLUpdate ==
    /\ trackerPc = "loop"
    /\ nUpdates < MaxUpdates
    /\ \E update \in EmptyURLUpdates : pendingUpdate' = update
    /\ nUpdates' = nUpdates + 1
    /\ trackerPc' = "handleUpdate"
    /\ UNCHANGED << state, published, health, mutex, Checks, timer, wg,
                    refresherPc, worker, refreshNo, gen, lastAdvertised,
                    replies, observed >>
    /\ UNCHANGED << httpVars, checkerVars, applied, events, cacheVars >>

\* a fetchCredsFromOne goroutine panics in combineURL: the process ends,
\* and every goroutine with it
fetchCredsFromOnePanic ==
    /\ \E kind \in Kinds :
          /\ worker[kind].pc = "fetch"
          /\ \E b \in worker[kind].pending :
                fetchCredsFromOnePanics(worker[kind].cds[b])
          /\ worker' = [k \in Kinds |->
                          [worker[k] EXCEPT !.pc = IF k = kind THEN "panicked"
                                                   ELSE "exited"]]
    /\ trackerPc' = "exited"
    /\ refresherPc' = "exited"
    /\ timer' = "stopped"
    /\ UNCHANGED << state, published, health, mutex, Checks, pendingUpdate,
                    wg, refreshNo, nUpdates, gen, lastAdvertised, replies,
                    observed >>
    /\ UNCHANGED << httpVars, checkerVars, applied, events, cacheVars >>

NextEmptyURL ==
    \/ receiveEmptyURLUpdate
    \/ handleUpdate
    \/ accountTrackerTimer
    \/ updateAllAccountsDone
    \/ updateAccounts
    \/ updateArtifactAccounts
    \/ fetchCredsFromOnePanic

SpecEmptyURL == InitRemoval /\ [][NextEmptyURL]_vars

\* C39: no goroutine of a refresh panics, whatever discovery updates have
\* been handled before it, one with an empty URL included.
C39_EmptyURLDoesNotCrash == \A kind \in Kinds : worker[kind].pc # "panicked"


(***************************************************************************)
(* SpecConfig: main from the configuration file on: loadConfiguration      *)
(* applies the defaults and validates, MakeClouddriverManager builds the   *)
(* registry from the list, and the account tracker makes its first         *)
(* refresh.                                                                *)
(***************************************************************************)
\* fmt.Sprintf("%d", idx) for the indexes of the lists of ConfigFiles
Itoa(n) == CASE n = 0 -> "0" [] n = 1 -> "1" [] OTHER -> "2"

\* configuration.applyDefaults, of the list of clouddrivers: idx counts from
\* 0.  The URLs of ConfigFiles do not end in a slash, so combineURL adds
\* "/health" to them.
applyDefaults(clouddrivers) ==
    [i \in DOMAIN clouddrivers |->
        LET cd == clouddrivers[i]
            named == IF Len(cd.Name) = 0
                     THEN [cd EXCEPT !.Name = "clouddriver[" \o Itoa(i - 1) \o "]"]
                     ELSE cd
        IN IF Len(cd.HealthcheckURL) = 0 /\ Len(cd.URL) # 0
           THEN [named EXCEPT !.HealthcheckURL = cd.URL \o "/health"]
           ELSE named]

\* configuration.validate returns nil: url.Parse accepts the URLs of
\* ConfigFiles
validate(clouddrivers) ==
    \A i \in DOMAIN clouddrivers : clouddrivers[i].URL # ""

\* the clouddrivers of the configuration file
ConfigFiles ==
    { <<>>,
      << ClouddriverConfig("a", "http://a", 0, FALSE),
         ClouddriverConfig("b", "http://b", 5, TRUE) >>,
      << ClouddriverConfig("a", "http://a", 0, FALSE),
         ClouddriverConfig("a", "http://b", 0, FALSE) >>,
      << ClouddriverConfig("", "http://a", 0, FALSE),
         ClouddriverConfig("", "http://b", 0, FALSE) >>,
      << ClouddriverConfig("clouddriver[1]", "http://a", 0, FALSE),
         ClouddriverConfig("", "http://b", 0, FALSE) >>,
      << ClouddriverConfig("a", "http://a", 0, FALSE),
         ClouddriverConfig("b", "", 0, FALSE) >> }

InitConfig ==
    /\ state = EmptyMap
    /\ cloudAccountRoutes = EmptyMap
    /\ cloudAccounts = <<>>
    /\ artifactAccountRoutes = EmptyMap
    /\ artifactAccounts = <<>>
    /\ health = NoError
    /\ mutex = "free"
    /\ Checks = <<>>
    /\ trackerPc = "notConstructed"
    /\ pendingUpdate = NoUpdate
    /\ timer = "stopped"
    /\ wg = 0
    /\ refresherPc = "idle"
    /\ worker = [k \in Kinds |-> IdleWorker]
    /\ HistoryInit
    /\ HTTPIdle
    /\ makeHealth
    /\ applied \in { [fn |-> "loadConfiguration", clouddrivers |-> file,
                      done |-> FALSE, err |-> FALSE, config |-> <<>>] :
                     file \in ConfigFiles }
    /\ NoCacheClients

\* loadConfiguration, after yaml.Unmarshal
loadConfiguration ==
    /\ applied.fn = "loadConfiguration"
    /\ ~applied.done
    /\ LET config == applyDefaults(applied.clouddrivers)
       IN applied' = [applied EXCEPT !.done = TRUE,
                                     !.err = ~validate(config),
                                     !.config = IF validate(config) THEN config
                                                ELSE <<>>]
    /\ UNCHANGED << state, published, health, mutex, Checks, trackerPc,
                    pendingUpdate, timer, wg, refresherPc, worker, refreshNo,
                    nUpdates, gen, lastAdvertised, replies, observed >>
    /\ UNCHANGED << httpVars, checkerVars, events, cacheVars >>

\* main: clouddriverManager = MakeClouddriverManager(conf.Clouddrivers, ...)
\* once loadConfigurationFile has returned
mainMakeClouddriverManager ==
    /\ trackerPc = "notConstructed"
    /\ applied.done
    /\ ~applied.err
    /\ state' = ConfigState(applied.config)
    /\ health' = InitialSyncError
    /\ Checks' = AddCheck(ConfigChecks(applied.config), "ClouddriverManager",
                          TRUE, "ClouddriverManager")
    /\ trackerPc' = "start"
    /\ UNCHANGED << published, mutex, pendingUpdate, timer, wg, refresherPc,
                    worker, refreshNo, nUpdates, gen, lastAdvertised, replies,
                    observed >>
    /\ UNCHANGED << httpVars, checkerVars, applied, events, cacheVars >>

NextConfig ==
    \/ loadConfiguration
    \/ mainMakeClouddriverManager
    \/ accountTrackerStart
    \/ updateAccounts
    \/ updateArtifactAccounts
    \/ updateAllAccountsDone
    \/ accountTrackerSetHealth

SpecConfig == InitConfig /\ [][NextConfig]_vars

\* C40: once the manager is constructed, every entry of the configuration
\* list has its backend in the registry, and a refresh that has taken its
\* list of backends to poll for cloud accounts has every entry's backend in
\* it.
C40_EveryConfiguredBackendTracked ==
    trackerPc # "notConstructed" =>
        \A i \in DOMAIN applied.config :
            /\ \E k \in DOMAIN state : state[k].URL = applied.config[i].URL
            /\ worker["cloud"].pc = "fetch" =>
                  \E b \in DOMAIN worker["cloud"].cds :
                      worker["cloud"].cds[b].URL = applied.config[i].URL

=============================================================================
